---- MODULE Spec2Model ----
(***************************************************************************)
(* Model of the repetition middleware of koishi-plugin-w-repeat            *)
(* (src/unnamed/part_001): the per-channel runtime (currentRec,            *)
(* queuedRecs, suspendedRecs), the record table w-repeat-record and the    *)
(* user table w-repeat-user.                                               *)
(*                                                                         *)
(* JavaScript objects are kept in a heap, a sequence of objects addressed  *)
(* by their index, so that two references to one object (runtime.currentRec*)
(* and an element of runtime.queuedRecs) stay aliased.  Address 0 is       *)
(* `undefined`.  One step of the model is one turn of the event loop: the  *)
(* dispatch of a session or the arrival of one answer a run waits for, and *)
(* what the run executes up to its next await of an answer.  Whether a     *)
(* session is dispatched while another run is under way                    *)
(* is decided by the specification: the platform dispatches sessions as    *)
(* they come.  `env` holds what the plugin finds around it: whether the    *)
(* record table rejects keys it does not declare, the tesseract service    *)
(* and worker, and the command a session forwarded by next() carries.      *)
(***************************************************************************)
EXTENDS Integers, Sequences, FiniteSets, TLC

VARIABLES
    config,     \* the plugin Config
    plugin,     \* runtimes: Record<gid, RepeatRuntime> (addresses into heap),
                \* heap and arrays: the record objects and their arrays,
                \* records, autoInc: table w-repeat-record and its last id,
                \* users: table w-repeat-user (uid -> counters),
                \* tasks: the runs of the middleware that wait for an answer
    seen,       \* the runtimes, objects and tables as they were when last no
                \* run was under way
    now,        \* clock: Date.now(), advanced by every session
    history,    \* one entry per returned run: input, database calls, result
    probe,      \* arguments and results of a direct call of isSameMessage
    draft,      \* src/src/index.ts: the runtime row, tables and results
    env         \* what the plugin runs on: the tables' treatment of undeclared
                \* keys, the tesseract service, the worker created by apply,
                \* the command line passed on by next() and not yet executed

vars == <<config, plugin, seen, now, history, probe, draft, env>>

----------------------------------------------------------------------------
(* Bounds of the model *)

MaxMsgs == 5
MaxScnMsgs == 5
MaxLongMsgs == 6
MaxImgMsgs == 5
\* runs of the middleware that overlap
MaxOverlap == 2

Uids == {"u1", "u2", "u3"}
Gid1 == "g1"
Gid2 == "g2"

----------------------------------------------------------------------------
(* Values *)

\* address of `undefined`
Undefined == 0

\* a failed download: the element of `images` is null
Null == [isNull |-> TRUE, b64 |-> "", text |-> ""]

RepeatImage(b) == [isNull |-> FALSE, b64 |-> b, text |-> ""]

Text(s) == [type |-> "text", val |-> s]

\* session contents used as inputs: sequences of parsed elements
Raw ==
    [A |-> <<Text("A")>>,
     B |-> <<Text("B")>>,
     C |-> <<Text("C")>>,
     P |-> <<Text("A"), [type |-> "img", val |-> "s1"]>>,
     Q |-> <<Text("A"), [type |-> "img", val |-> "s2"]>>,
     H |-> <<Text("@__KOISHI_IMG__@")>>]

\* sessions that carry a command of the plugin
Cmd ==
    [Clear       |-> <<Text("repeat.debug.runtime.clear")>>,
     ClearAll    |-> <<Text("repeat.debug.runtime.clear -a")>>,
     Switch      |-> <<Text("repeat.admin.conf -S")>>,
     Delete      |-> <<Text("repeat.record 1 -d")>>,
     Ocr         |-> <<Text("repeat.record 1 -o")>>,
     Regen       |-> <<Text("repeat.admin.regen-user-table")>>,
     Recognize   |-> <<Text("repeat.admin.recognize-all-images")>>,
     Migrate     |-> <<Text("repeat.admin.migrate-guild g1 g2")>>,
     EvalRead    |-> <<Text("repeat.debug.eval Object.keys(runtimes)")>>,
     EvalWrite   |-> <<Text("repeat.debug.eval config.doWrite = false")>>,
     Stat        |-> <<Text("repeat.stat -j rec => rec.senders.length > 2")>>,
     \* command lines of src/src/index.ts
     IndexSwitch |-> <<Text("repeat.conf -S")>>,
     IndexRegen  |-> <<Text("repeat.debug.regen-user-table")>>]

CommandLines ==
    {Cmd.Clear, Cmd.ClearAll, Cmd.Switch, Cmd.Delete, Cmd.Ocr, Cmd.Regen, Cmd.Recognize,
     Cmd.Migrate, Cmd.EvalRead, Cmd.EvalWrite, Cmd.Stat}

\* command lines of src/src/index.ts
IndexCommandLines == {Cmd.IndexSwitch, Cmd.Delete, Cmd.IndexRegen}

\* bytes found at an image source (base64 of the downloaded buffer)
Base64Of(src) == IF src = "s1" THEN "b1" ELSE "b2"

Range(s) == {s[i] : i \in 1..Len(s)}

Last(s) == s[Len(s)]

\* the array with the elements f[1], ..., f[Len(f)], as a tuple
Array(f) == SubSeq(f, 1, Len(f))

----------------------------------------------------------------------------
(* Tool functions *)

omit(x, keys) == [k \in (DOMAIN x) \ keys |-> x[k]]

pickOr(x, keys) == <<[k \in (DOMAIN x) \cap keys |-> x[k]], omit(x, keys)>>

----------------------------------------------------------------------------
(* Message normalisation *)

ImgPlaceholder == "@__KOISHI_IMG__@"

\* el.toString(): a text element is its text, an image element is
\* <img src="..."/>
ElToString(el) ==
    IF el.type = "text" THEN el.val ELSE "<img src=\"" \o el.val \o "\"/>"

RECURSIVE ParseContent(_, _)
ParseContent(els, doProcessImage) ==
    IF els = <<>> THEN ""
    ELSE (IF doProcessImage /\ Head(els).type = "img"
            THEN ImgPlaceholder
            ELSE ElToString(Head(els)))
         \o ParseContent(Tail(els), doProcessImage)

RECURSIVE ImageSrcs(_, _)
ImageSrcs(els, doProcessImage) ==
    IF els = <<>> THEN <<>>
    ELSE (IF doProcessImage /\ Head(els).type = "img"
            THEN <<Head(els).val>>
            ELSE <<>>)
         \o ImageSrcs(Tail(els), doProcessImage)

\* fetched[i] tells whether the download of the i-th source succeeded
ThisMessage(els, fetched, doProcessImage) ==
    LET srcs == ImageSrcs(els, doProcessImage)
    IN  [content |-> ParseContent(els, doProcessImage),
         images  |-> Array([i \in 1..Len(srcs) |->
                              IF fetched[i] THEN RepeatImage(Base64Of(srcs[i]))
                                            ELSE Null])]

----------------------------------------------------------------------------
(* Equality of messages *)

isSameImagesLengthOnly(images1, images2) ==
    /\ ~ (Null \in (Range(images1) \cup Range(images2)))
    /\ Len(images1) = Len(images2)

isSameImages(images1, images2) ==
    /\ ~ (Null \in (Range(images1) \cup Range(images2)))
    /\ Len(images1) = Len(images2)
    /\ \A i \in 1..Len(images1) : images1[i].b64 = images2[i].b64

isSameMessage(message1, message2) ==
    /\ message1.content = message2.content
    /\ isSameImages(message1.images, message2.images)

----------------------------------------------------------------------------
(* Records *)

createCurrentRec(gid) ==
    [gid            |-> gid,
     content        |-> "",
     images         |-> <<>>,
     senders        |-> <<>>,
     startTime      |-> 0,
     endTime        |-> 0,
     interrupter    |-> "undefined",
     suspensions    |-> <<>>,
     unrelatedCount |-> 0,
     deleted        |-> FALSE]

\* the fields of the model 'w-repeat-record'
RecordFields ==
    {"id", "gid", "content", "senders", "startTime", "endTime",
     "interrupter", "images", "suspensions"}

\* omit(currentRec, [ 'unrelatedCount' ]), the argument of database.create:
\* the key `deleted` exists in the object once procRecs has set it
CreateData(rec) ==
    omit(rec, {"unrelatedCount"} \cup (IF rec.deleted THEN {} ELSE {"deleted"}))

\* database.create of a table that rejects keys that are not fields of the
\* model: TypeError (unknown field "deleted" in model w-repeat-record)
CreateRejects(data) ==
    env.strict /\ (DOMAIN data) \ RecordFields # {}

\* database.create: the row stored (and returned) for `data`, with a fresh id
CreateRow(data, id) ==
    [k \in RecordFields |-> IF k = "id" THEN id ELSE data[k]]

\* tesseractWorker.recognize: the text read in an image
RecognizedText(b64) == "text of " \o b64

\* updateImageText(rec) for a record without id: the i-th image that is not
\* null is recognised and its text is written to images[i], which throws a
\* TypeError when images[i] is null (a failed download before it)
UpdateImageText(images) ==
    LET filtered == SelectSeq(images, LAMBDA x : x # Null)
    IN  [images |-> Array([i \in 1..Len(images) |->
                        IF i <= Len(filtered) /\ images[i] # Null
                            THEN [images[i] EXCEPT
                                    !.text = RecognizedText(filtered[i].b64)]
                            ELSE images[i]]),
         thrown |-> \E i \in 1..Len(filtered) : images[i] = Null]

\* the fields of the model 'w-repeat-user', counterField() initial 0
NewUser ==
    [repeatTime |-> 0, repeatCount |-> 0, beRepeatedTime |-> 0,
     beRepeatedCount |-> 0, interruptTime |-> 0]

\* upsert of the repeating user (first upsert of the isRepeating branch)
UpsertRepeater(table, uid, senders) ==
    [table EXCEPT
        ![uid].repeatCount = table[uid].repeatTime + 1,
        ![uid].repeatTime  = IF uid \in Range(SubSeq(senders, 1, Len(senders) - 1))
                                THEN table[uid].repeatTime
                                ELSE table[uid].repeatTime + 1]

UpsertStarterEveryTime(table, senders) ==
    [table EXCEPT
        ![senders[1]].beRepeatedCount = @ + 1,
        ![senders[1]].beRepeatedTime  = @ + 1]

\* upsert of the starter (second upsert of the isRepeating branch)
UpsertStarter(table, senders) ==
    [table EXCEPT
        ![senders[1]].beRepeatedCount = @ + 1,
        ![senders[1]].beRepeatedTime  = IF Len(senders) = 2 THEN @ + 1 ELSE @]

\* upsert of the interrupter
UpsertInterrupter(table, uid) ==
    [table EXCEPT ![uid].interruptTime = @ + 1]

----------------------------------------------------------------------------
(* procRecs *)

\* the map callback of procRecs deleting one message too late
ProcRecLate(rec, message, uid, maxUnrelatedCount) ==
    IF isSameMessage(message, rec)
        THEN [rec EXCEPT !.senders = Append(@, uid),
                         !.unrelatedCount = 0]
        ELSE [rec EXCEPT !.unrelatedCount = @ + 1,
                         !.deleted = @ \/ (rec.unrelatedCount + 1 > maxUnrelatedCount + 1)]

\* the body of the map callback of procRecs, without the call of onSame
ProcRec(rec, message, uid, maxUnrelatedCount) ==
    IF isSameMessage(message, rec)
        THEN [rec EXCEPT !.senders = Append(@, uid),
                         !.unrelatedCount = 0]
        ELSE [rec EXCEPT !.unrelatedCount = @ + 1,
                         !.deleted = @ \/ (rec.unrelatedCount + 1 > maxUnrelatedCount)]

\* onSame of procRecs('suspendedRecs') when isRepeating: the resumed record
\* (pickOr, suspensions.push); rec is the record after ProcRec
Resumed(rec, time) ==
    LET suspension == pickOr(rec, {"suspendTime", "resumeTime"})[1]
        resumed    == pickOr(rec, {"suspendTime", "resumeTime"})[2]
    IN  [resumed EXCEPT !.suspensions =
            Append(@, [suspendTime |-> suspension.suspendTime,
                       resumeTime  |-> time])]

\* the record pushed to suspendedRecs for the created row `old`
Suspended(old, time) ==
    [k \in RecordFields \cup {"unrelatedCount", "suspendTime", "resumeTime", "deleted"} |->
        CASE k = "unrelatedCount" -> 1
          [] k = "suspendTime"    -> time
          [] k = "resumeTime"     -> 0
          [] k = "deleted"        -> FALSE
          [] OTHER                -> old[k]]

\* the number of matches of /@__KOISHI_IMG__@/g in content (leftmost,
\* non-overlapping)
RECURSIVE Occurrences(_)
Occurrences(content) ==
    IF Len(content) < Len(ImgPlaceholder) THEN 0
    ELSE IF SubSeq(content, 1, Len(ImgPlaceholder)) = ImgPlaceholder
        THEN 1 + Occurrences(SubSeq(content, Len(ImgPlaceholder) + 1, Len(content)))
        ELSE Occurrences(Tail(content))

\* unescapeMessage(thisMessage): the replacer reads message.images[imageIdx ++]
\* and then image.b64 for every match; it throws a TypeError when that element
\* is undefined (no image at this index) or null (a failed download)
UnescapeThrows(message) ==
    \E k \in 1..Occurrences(message.content) :
        \/ k > Len(message.images)
        \/ message.images[k] = Null

----------------------------------------------------------------------------
(* Parts of the middleware *)

\* the message logged for a session that is not parsed
NoMessage == [content |-> "", images |-> <<>>]

\* session.gid of a message outside a guild (session.guildId is undefined)
NoGuild == "private"

\* new RegExp(re).test(originalContent) for a pattern of
\* config.repeatBlacklist of the form ^literal$
RegExpTest(re, originalContent) == originalContent = re.literal

\* the early returns taken without the blacklist test
BypassedNoBlacklist(gid, els) ==
    \/ ~ config.doWrite
    \/ gid = NoGuild

\* the conditions of the three early returns of the middleware
Bypassed(gid, els) ==
    \/ ~ config.doWrite
    \/ gid = NoGuild
    \/ \E re \in config.repeatBlacklist : RegExpTest(re, ParseContent(els, FALSE))

\* variant: one sender makes a complete repetition
isCompleteFromOne(repeatCount) == repeatCount > 0

\* `repeatCount > 1`: the current repetition is a complete one
isComplete(repeatCount) == repeatCount > 1

\* the block `if (isNewRec)` without the first sender
NewCurrentRecNoSender(gid, uid, message, timestamp) ==
    [createCurrentRec(gid) EXCEPT
        !.content = message.content,
        !.images = message.images,
        !.startTime = timestamp]

\* the block `if (isNewRec)`: the new current record, which starts at
\* session.timestamp
NewCurrentRec(gid, uid, message, timestamp) ==
    [createCurrentRec(gid) EXCEPT
        !.content = message.content,
        !.images = message.images,
        !.startTime = timestamp,
        !.senders = <<uid>>]

\* the last statements of the middleware: echo or next()
Result(senders, message) ==
    IF Len(senders) = config.repeatCount
        THEN IF UnescapeThrows(message) THEN "throw" ELSE "echo"
        ELSE "next"

----------------------------------------------------------------------------
(* The repetition middleware *)

(* The middleware is an async function and no lock orders the runs of one   *)
(* channel: a run gives up control at every await, and koishi dispatches    *)
(* other sessions, whose runs read and write the same runtime, before the   *)
(* awaited promise is settled.  The promises a run waits for are settled by *)
(* answers from outside: the downloads of its images (fetch), the           *)
(* database.remove of every onSame of procRecs('suspendedRecs'), the two    *)
(* upserts of a complete repetition, database.create and the upsert of an   *)
(* interruption, and every tesseractWorker.recognize of updateImageText.    *)
(* An await of promises that need no answer (Promise.all over no download,  *)
(* over callbacks none of which waits) is continued by the microtasks of    *)
(* the same turn of the event loop, before anything else is dispatched.     *)
(* One step of the model is one turn: the dispatch of a session or the      *)
(* arrival of one answer, and all that the code executes up to the point    *)
(* where every run waits for an answer or has returned.  A run that has not *)
(* returned is a task: its local variables, the await at which it waits and *)
(* the callbacks whose answers are outstanding.  Database calls take effect *)
(* when they are issued; a rejected call has no effect.                     *)
(*                                                                          *)
(* An object of the heap holds its own keys and `arr`, the number of the    *)
(* arrays (senders, suspensions, images) it refers to: a copy made by       *)
(* pickOr or omit is a new object that shares the arrays of the record it   *)
(* was made from.                                                           *)

ArrayFields == {"senders", "suspensions", "images"}

\* { currentRec: undefined, queuedRecs: [], suspendedRecs: [] }
NoRuntime ==
    [currentRec |-> Undefined, queuedRecs |-> <<>>, suspendedRecs |-> <<>>]

\* variant: one key of `runtimes` for all channels
RuntimeKeyShared(gid) == Gid1

\* the key of `runtimes` for a session of the channel gid
RuntimeKey(gid) == gid

\* the runtime object runtimes[gid] refers to (c.runtimes holds for every key
\* the number of its object in c.rts; an object deleted from `runtimes` stays
\* in c.rts for the runs that hold it)
RuntimeIn(c, gid) ==
    IF gid \in DOMAIN c.runtimes THEN c.rts[c.runtimes[gid]] ELSE NoRuntime

\* const runtime = runtimes[gid] ??= { currentRec: undefined, queuedRecs: [],
\* suspendedRecs: [] }: the run k holds the object of its channel, a new one
\* if `runtimes` has none
GetRuntime(c, k) ==
    LET key == RuntimeKey(c.tasks[k].gid)
    IN  IF key \in DOMAIN c.runtimes
          THEN [c EXCEPT !.tasks[k].runtime = c.runtimes[key]]
          ELSE [c EXCEPT
                  !.rts = Append(@, NoRuntime),
                  !.runtimes = [g \in (DOMAIN @) \cup {key} |->
                                   IF g = key THEN Len(c.rts) + 1 ELSE @[g]],
                  !.tasks[k].runtime = Len(c.rts) + 1]

\* the runtime object the run k holds
RuntimeOf(c, k) == c.rts[c.tasks[k].runtime]

SetRuntime(c, k, rt) == [c EXCEPT !.rts[c.tasks[k].runtime] = rt]

\* the object at address a, read with its arrays
Obj(c, a) ==
    [f \in ((DOMAIN c.heap[a]) \ {"arr"}) \cup ArrayFields |->
        IF f \in ArrayFields THEN c.arrays[c.heap[a].arr][f] ELSE c.heap[a][f]]

\* the own keys of the object rec, referring to the arrays numbered arr
Scalars(rec, arr) ==
    [f \in ((DOMAIN rec) \ ArrayFields) \cup {"arr"} |->
        IF f = "arr" THEN arr ELSE rec[f]]

\* the arrays of the object rec
Arrays(rec) ==
    [senders |-> rec.senders, suspensions |-> rec.suspensions, images |-> rec.images]

\* the keys and the arrays of the object at address a become those of rec
Store(c, a, rec) ==
    [c EXCEPT !.heap[a] = Scalars(rec, c.heap[a].arr),
              !.arrays[c.heap[a].arr] = Arrays(rec)]

\* a new object with arrays of its own (an object literal)
New(c, rec) ==
    [c EXCEPT !.arrays = Append(@, Arrays(rec)),
              !.heap = Append(@, Scalars(rec, Len(c.arrays) + 1))]

\* the heap with every object read with its arrays
HeapOf(c) ==
    Array([a \in 1..Len(c.heap) |-> Obj(c, a)])

\* no call of the run is rejected by the database
NoFailure == [call |-> "none", id |-> 0]

\* the database rejects the call `call` of the run (for remove: of row id)
Failure(call, id) == [call |-> call, id |-> id]

\* the run of a session that has passed the tests of doWrite, guildId and
\* repeatBlacklist, has parsed its content and waits for its downloads;
\* `time` is the time of its arrival, `failing` the call the database will
\* reject
NewTask(gid, uid, els, message, timestamp, time, failing) ==
    [gid |-> gid, uid |-> uid, els |-> els, message |-> message,
     timestamp |-> timestamp, time |-> time, failing |-> failing,
     pc |-> "fetch", runtime |-> 0,
     isRepeating |-> FALSE, currentRec |-> Undefined, isNewRec |-> TRUE,
     repeatCount |-> 0, old |-> {},
     \* outstanding answers: database.remove of the onSame callbacks,
     \* recognitions of updateImageText, the calls awaited together
     pending |-> {}, ocr |-> {}, images |-> 0, answered |-> FALSE, rejects |-> {},
     \* what the run has done
     created |-> {}, removed |-> {}, resumed |-> FALSE, promoted |-> FALSE,
     inserted |-> FALSE, rejected |-> "", result |-> "", entry |-> 0]

\* variant: no message is taken as a repetition of the current one
IsRepeatingNever(c, message, a) == FALSE

\* const isRepeating = isSameMessage(thisMessage, currentRec), for the
\* reference a held by runtime.currentRec
IsRepeating(c, message, a) ==
    /\ a # Undefined
    /\ isSameMessage(message, Obj(c, a))

\* the callback of runtime.suspendedRecs.map for the record at address a, up
\* to `await ctx.database.remove`: pending holds the record and the copy
\* `resumed` of every onSame that waits
SuspendedCallback(c, k, a, time) ==
    LET t   == c.tasks[k]
        rec == ProcRec(Obj(c, a), t.message, t.uid, config.maxUnrelatedCount)
        c1  == Store(c, a, rec)
    IN  IF t.isRepeating /\ isSameMessage(t.message, rec)
          THEN LET c2    == [c1 EXCEPT !.heap = Append(@, Scalars(Resumed(rec, time), c1.heap[a].arr))]
                   fails == t.failing = Failure("remove", rec.id)
               IN  [c2 EXCEPT
                      !.arrays[c.heap[a].arr].suspensions =
                          Resumed(rec, time).suspensions,
                      !.records = IF fails THEN @ ELSE {r \in @ : r.id # rec.id},
                      !.tasks[k].removed = IF fails THEN @ ELSE @ \cup {rec.id},
                      !.tasks[k].pending = @ \cup {<<a, Len(c2.heap)>>}]
          ELSE c1

RECURSIVE MapSuspended(_, _, _, _)
MapSuspended(c, k, recs, time) ==
    IF recs = <<>> THEN c
    ELSE MapSuspended(SuspendedCallback(c, k, Head(recs), time), k, Tail(recs), time)

\* variant: a matching candidate is not made the current record
QueuedCallbackNeverPromotes(c, k, a) ==
    Store(c, a, ProcRec(Obj(c, a), c.tasks[k].message, c.tasks[k].uid,
                        config.maxUnrelatedCount))

\* the callback of runtime.queuedRecs.map for the record at address a; onSame
\* does not wait: isNewRec = false, currentRec = runtime.currentRec = rec
QueuedCallback(c, k, a) ==
    LET t   == c.tasks[k]
        rec == ProcRec(Obj(c, a), t.message, t.uid, config.maxUnrelatedCount)
        c1  == Store(c, a, rec)
    IN  IF isSameMessage(t.message, rec)
          THEN [SetRuntime(c1, k,
                           [RuntimeOf(c1, k) EXCEPT !.currentRec = a])
                   EXCEPT !.tasks[k].isNewRec = FALSE,
                          !.tasks[k].promoted = TRUE,
                          !.tasks[k].currentRec = a]
          ELSE c1

RECURSIVE MapQueued(_, _, _)
MapQueued(c, k, recs) ==
    IF recs = <<>> THEN c
    ELSE MapQueued(QueuedCallback(c, k, Head(recs)), k, Tail(recs))

\* runtime[recsName] = runtime[recsName].filter(rec => ! rec.deleted)
Filter(c, k, recsName) ==
    SetRuntime(c, k,
               [RuntimeOf(c, k) EXCEPT
                   ![recsName] = SelectSeq(@, LAMBDA a : ~ c.heap[a].deleted)])

\* the run k returns with `result`, or ends with the rejection of `call`
Return(c, k, result, call) ==
    [c EXCEPT !.tasks[k].pc = "done",
              !.tasks[k].result = result,
              !.tasks[k].rejected = call]

\* an awaited promise of the run k is rejected: the middleware has no
\* try/catch around its awaits, so the run ends there, unless it has ended
Throw(c, k, call) ==
    IF c.tasks[k].pc = "done" THEN c ELSE Return(c, k, "throw", call)

\* the echo test and the return of task k
Echo(c, k) ==
    LET t == c.tasks[k]
    IN  Return(c, k, Result(Obj(c, t.currentRec).senders, t.message), "")

\* the block `if (isNewRec)` and the echo test
NewRec(c, k) ==
    LET t  == c.tasks[k]
        c1 == New(c, NewCurrentRec(t.gid, t.uid, t.message, t.timestamp))
        rt == RuntimeOf(c, k)
    IN  IF t.isNewRec
          THEN Echo([SetRuntime(c1, k,
                                [rt EXCEPT !.currentRec = Len(c1.heap),
                                           !.queuedRecs = <<Len(c1.heap)>> \o @])
                        EXCEPT !.tasks[k].currentRec = Len(c1.heap),
                               !.tasks[k].inserted = TRUE], k)
          ELSE Echo(c, k)

\* variant: the interrupted repetition is suspended whatever the window is
SuspendsAlways(old) == Len(old.senders) > 1

\* if (config.maxUnrelatedCount && old.senders.length > 1)
Suspends(old) == config.maxUnrelatedCount # 0 /\ Len(old.senders) > 1

\* after `await Promise.all([ create, upsert, updateImageText ])`:
\* suspendedRecs.unshift of a copy of the row, the block `if (isNewRec)`,
\* the echo test
AfterCreate(c, k, time) ==
    LET t   == c.tasks[k]
        sus == {old \in t.old : Suspends(old)}
        c2  == New(c, Suspended(CHOOSE old \in sus : TRUE, time))
        rt  == RuntimeOf(c, k)
    IN  IF sus = {} THEN NewRec(c, k)
        ELSE NewRec(SetRuntime(c2, k,
                               [rt EXCEPT !.suspendedRecs = <<Len(c2.heap)>> \o @]),
                    k)

\* `if (repeatCount > 1)` of the else branch up to its await: interrupter,
\* endTime, database.create and the upsert issued, the recognitions of
\* updateImageText(currentRec) started for the images that are not null
Interrupt(c, k, time) ==
    LET t       == c.tasks[k]
        c1      == [c EXCEPT !.heap[t.currentRec].interrupter = t.uid,
                             !.heap[t.currentRec].endTime = time]
        data    == CreateData(Obj(c1, t.currentRec))
        noRow   == CreateRejects(data) \/ t.failing.call = "create"
        noCount == t.failing.call = "upsertInterrupter"
        old     == CreateRow(data, c.autoInc + 1)
        images  == c.heap[t.currentRec].arr
        ocr     == config.doProcessImage /\ config.doOcr /\ env.tesseractWorker
    IN  [c1 EXCEPT
           !.records = IF noRow THEN @ ELSE @ \cup {old},
           !.autoInc = IF noRow THEN @ ELSE @ + 1,
           !.users = IF noCount THEN @ ELSE UpsertInterrupter(@, t.uid),
           !.tasks[k].old = IF noRow THEN {} ELSE {old},
           !.tasks[k].created = IF noRow THEN @ ELSE @ \cup {old},
           !.tasks[k].rejects =
               (IF noRow THEN {"create"} ELSE {})
                   \cup (IF noCount THEN {"upsertInterrupter"} ELSE {}),
           !.tasks[k].images = images,
           !.tasks[k].ocr =
               IF ocr
                 THEN 1..Len(SelectSeq(c.arrays[images].images, LAMBDA x : x # Null))
                 ELSE {},
           !.tasks[k].answered = FALSE,
           !.tasks[k].pc = "create"]


\* after `await procRecs('suspendedRecs', ...)`: senders.push and the upserts
\* of a repetition up to their await, or repeatCount and procRecs('queuedRecs'),
\* none of whose callbacks waits
AfterSuspended(c, k, time) ==
    LET t == c.tasks[k]
    IN  IF t.isRepeating
          THEN LET c1      == [c EXCEPT !.arrays[c.heap[t.currentRec].arr].senders =
                                            Append(@, t.uid)]
                   senders == Obj(c1, t.currentRec).senders
                   rejects == {t.failing.call} \cap {"upsertRepeater", "upsertStarter"}
                   u1      == IF "upsertRepeater" \in rejects THEN c.users
                              ELSE UpsertRepeater(c.users, t.uid, senders)
                   u2      == IF "upsertStarter" \in rejects THEN u1
                              ELSE UpsertStarter(u1, senders)
               IN  IF isComplete(Len(senders))
                     THEN [c1 EXCEPT
                             !.users = u2,
                             !.tasks[k].repeatCount = Len(senders),
                             !.tasks[k].rejects = rejects,
                             !.tasks[k].pc = "upsert"]
                     ELSE Echo(c1, k)
          ELSE LET c1 == [c EXCEPT
                            !.tasks[k].repeatCount =
                                IF t.currentRec = Undefined THEN 0
                                ELSE Len(Obj(c, t.currentRec).senders)]
                   c2 == MapQueued(c1, k, RuntimeOf(c1, k).queuedRecs)
                   c3 == Filter(c2, k, "queuedRecs")
               IN  IF isComplete(c3.tasks[k].repeatCount)
                       THEN Interrupt(c3, k, time)
                       ELSE NewRec(c3, k)

\* the Promise.all of procRecs('suspendedRecs') is fulfilled: the filter of
\* procRecs and what follows its await
ProcSuspended(c, k, time) ==
    AfterSuspended(Filter(c, k, "suspendedRecs"), k, time)

\* after the downloads: runtimes[gid] ??=, let { currentRec } = runtime,
\* isRepeating, and the callbacks of procRecs('suspendedRecs'); the run
\* waits if an onSame waits for database.remove
Start(c, k, time) ==
    LET t  == c.tasks[k]
        rt == RuntimeOf(GetRuntime(c, k), k)
        c0 == [GetRuntime(c, k) EXCEPT
                  !.tasks[k].currentRec = rt.currentRec,
                  !.tasks[k].isRepeating = IsRepeating(c, t.message, rt.currentRec),
                  !.tasks[k].pc = "suspended"]
        c1 == MapSuspended(c0, k, rt.suspendedRecs, time)
    IN  IF c1.tasks[k].pending = {} THEN ProcSuspended(c1, k, time) ELSE c1

\* after `await ctx.database.remove(...)` of the onSame p: rec.deleted = true,
\* isNewRec = false, runtime.currentRec = omit(resumed, [ 'id' ]); the copy is
\* referred to by nothing else, so it stands for the object omit returns.
\* The continuation also runs when the run has ended with a rejection; after
\* the last one the Promise.all of procRecs is fulfilled.
AfterRemove(c, k, p, time) ==
    LET t  == c.tasks[k]
        rt == RuntimeOf(c, k)
        c1 == [SetRuntime(c, k, [rt EXCEPT !.currentRec = p[2]]) EXCEPT
                  !.heap[p[1]].deleted = TRUE,
                  !.heap[p[2]] = omit(@, {"id"}),
                  !.tasks[k].isNewRec = FALSE,
                  !.tasks[k].resumed = TRUE,
                  !.tasks[k].pending = @ \ {p}]
    IN  IF t.pc = "suspended" /\ t.pending = {p}
            THEN ProcSuspended(c1, k, time)
            ELSE c1

\* database.create and the upsert of the interruption are answered: the
\* awaited Promise.all is rejected with the rejection that comes first
\* (`first`, if both calls are rejected) and the run ends; otherwise the run
\* continues once the recognitions are done
AnswerCreate(c, k, first, time) ==
    LET t == c.tasks[k]
    IN  IF t.rejects # {}
          THEN Throw(c, k, IF first \in t.rejects THEN first
                           ELSE CHOOSE call \in t.rejects : TRUE)
        ELSE IF t.ocr = {} THEN AfterCreate(c, k, time)
        ELSE [c EXCEPT !.tasks[k].answered = TRUE]

\* after `await tesseractWorker.recognize(...)` of the i-th image that is not
\* null: images[i].text = text, which throws a TypeError when images[i] is
\* null (a failed download before it); the array is the one currentRec held
\* when updateImageText was called.  The awaited Promise.all continues after
\* the last of its promises.
AfterRecognize(c, k, i, time) ==
    LET t        == c.tasks[k]
        images   == c.arrays[t.images].images
        filtered == SelectSeq(images, LAMBDA x : x # Null)
        c1       == [c EXCEPT !.tasks[k].ocr = @ \ {i}]
        c2       == [c1 EXCEPT !.arrays[t.images].images[i].text =
                                    RecognizedText(filtered[i].b64)]
    IN  IF images[i] = Null THEN Throw(c1, k, "updateImageText")
        ELSE IF t.pc = "create" /\ t.answered /\ t.ocr = {i}
            THEN AfterCreate(c2, k, time)
            ELSE c2

\* the answers task k can receive: <<a, b>> the database.remove of the onSame
\* of the record at a with the copy at b, <<0, i>> the i-th recognition,
\* <<0, 0>> the downloads or the database calls the run itself awaits (of
\* two rejections the one of database.create first), <<-1, 0>> the calls of
\* an interruption when both are rejected and the one of the upsert is first
Answers(c, k) ==
    LET t == c.tasks[k]
    IN  t.pending
          \cup {<<0, i>> : i \in t.ocr}
          \cup (IF \/ t.pc \in {"fetch", "upsert"}
                   \/ t.pc = "create" /\ ~ t.answered
                  THEN {<<0, 0>>} ELSE {})
          \cup (IF t.pc = "create" /\ ~ t.answered
                      /\ t.rejects = {"create", "upsertInterrupter"}
                  THEN {<<-1, 0>>} ELSE {})

\* task k receives the answer p and continues up to the next await that
\* needs an answer, or to its return
Continue(c, k, p, time) ==
    LET t == c.tasks[k]
    IN  CASE p \in t.pending ->
                IF t.failing = Failure("remove", c.heap[p[1]].id)
                    THEN Throw([c EXCEPT !.tasks[k].pending = @ \ {p}], k, "remove")
                    ELSE AfterRemove(c, k, p, time)
          [] p[1] = 0 /\ p[2] # 0 -> AfterRecognize(c, k, p[2], time)
          [] t.pc = "fetch" -> Start(c, k, time)
          [] t.pc = "upsert" ->
                IF t.rejects # {}
                    THEN Throw(c, k, CHOOSE call \in t.rejects : TRUE)
                    ELSE Echo(c, k)
          [] t.pc = "create" ->
                AnswerCreate(c, k, IF p[1] = 0 THEN "create" ELSE "upsertInterrupter",
                             time)
          [] OTHER -> c

\* the run `task` begins: it waits for its downloads if the content has
\* images to process and goes on if it has none
Dispatch(c, task) ==
    LET c0 == [c EXCEPT !.tasks = Append(@, task)]
    IN  IF ImageSrcs(task.els, config.doProcessImage) = <<>>
            THEN Start(c0, Len(c0.tasks), task.time)
            ELSE c0

\* the runs that have not returned
Running(c) == {k \in 1..Len(c.tasks) : c.tasks[k].pc # "done"}

\* the runtimes, the objects and the tables of c
Snapshot(c) ==
    [runtimes |-> [g \in DOMAIN c.runtimes |-> c.rts[c.runtimes[g]]],
     heap |-> HeapOf(c), records |-> c.records,
     autoInc |-> c.autoInc, users |-> c.users]

\* the log entry of the run t
Entry(t) ==
    [gid |-> t.gid, uid |-> t.uid, els |-> t.els, time |-> t.time,
     timestamp |-> t.timestamp, message |-> t.message,
     bypassed |-> FALSE, doWrite |-> TRUE, isRepeating |-> t.isRepeating,
     resumed |-> t.resumed, promoted |-> t.promoted, isNewRec |-> t.inserted,
     created |-> t.created, removed |-> t.removed,
     result |-> t.result, rejected |-> t.rejected]

\* the tasks without the k-th
Drop(tasks, k) ==
    SubSeq(tasks, 1, k - 1) \o SubSeq(tasks, k + 1, Len(tasks))

\* the end of a turn in which task k of c has run; `returns` tells whether
\* the run has returned in it.  A run that returns is logged, and the command
\* of a session passed on by next() is executed after; a task is kept while
\* it has outstanding answers; `seen` is the state in which no run was under
\* way for the last time.
Turn(c, k, returns) ==
    LET t == c.tasks[k]
    IN  /\ history' = IF returns THEN Append(history, Entry(t))
                      ELSE IF t.pc = "done"
                          THEN [history EXCEPT ![t.entry] = Entry(t)]
                          ELSE history
        /\ plugin' = IF t.pc = "done" /\ t.pending = {} /\ t.ocr = {}
                        THEN [c EXCEPT !.tasks = Drop(@, k)]
                        ELSE IF returns
                            THEN [c EXCEPT !.tasks[k].entry = Len(history) + 1]
                            ELSE c
        /\ env' = IF returns
                     THEN [env EXCEPT !.forwarded =
                              IF t.result = "next" /\ t.els \in CommandLines
                                  THEN t.els ELSE @]
                     ELSE env
        /\ seen' = IF Running(plugin') = {} THEN Snapshot(plugin') ELSE seen

\* the three early returns of the middleware: nothing is read or written
Bypass(gid, uid, els) ==
    /\ Bypassed(gid, els)
    /\ now' = now + 1
    /\ history' = Append(history,
            [gid |-> gid, uid |-> uid, els |-> els, time |-> now + 1,
             timestamp |-> now + 1, message |-> NoMessage,
             bypassed |-> TRUE, doWrite |-> config.doWrite,
             isRepeating |-> FALSE, resumed |-> FALSE,
             promoted |-> FALSE, isNewRec |-> FALSE,
             created |-> {}, removed |-> {}, result |-> "next", rejected |-> ""])
    /\ env' = [env EXCEPT !.forwarded = IF els \in CommandLines THEN els ELSE @]
    /\ UNCHANGED <<config, plugin, seen, probe, draft>>

\* a session (gid, uid, content, timestamp) is dispatched: its run passes the
\* early returns and parses the content; it waits for its downloads if the
\* content has images to process and goes on if it has none.  `fetched` are
\* the outcomes of the downloads, `failing` is the call of the run that the
\* database will reject.
Arrive(gid, uid, els, timestamp, fetched, failing) ==
    /\ ~ Bypassed(gid, els)
    /\ now' = now + 1
    /\ \E c \in {Dispatch(plugin,
                           NewTask(gid, uid, els,
                                   ThisMessage(els, fetched, config.doProcessImage),
                                   timestamp, now + 1, failing))} :
       \E k \in {Len(c.tasks)} :
          Turn(c, k, c.tasks[k].pc = "done")
    /\ UNCHANGED <<config, probe, draft>>

\* task k receives the answer p
Complete(k, p) ==
    /\ k \in 1..Len(plugin.tasks)
    /\ p \in Answers(plugin, k)
    /\ \E c \in {Continue(plugin, k, p, now)} :
          Turn(c, k, c.tasks[k].pc = "done" /\ plugin.tasks[k].pc # "done")
    /\ UNCHANGED <<config, now, probe, draft>>

\* one outstanding answer of one task arrives
Answer ==
    \E k \in 1..Len(plugin.tasks) :
        \E p \in Answers(plugin, k) : Complete(k, p)
----------------------------------------------------------------------------
(* repeat.admin.regen-user-table *)

\* the body of recs.forEach: the counters after the record rec is counted
\* (starter, senders.slice(1) with `counted`, interrupter)
RegenRecord(table, rec) ==
    [u \in DOMAIN table |->
        [table[u] EXCEPT
            !.beRepeatedTime  = @ + (IF rec.senders[1] = u THEN 1 ELSE 0),
            !.beRepeatedCount = @ + (IF rec.senders[1] = u
                                        THEN Len(rec.senders) - 1 ELSE 0),
            !.repeatCount     = @ + Cardinality({i \in 2..Len(rec.senders) :
                                                    rec.senders[i] = u}),
            !.repeatTime      = @ + (IF \E i \in 2..Len(rec.senders) :
                                            rec.senders[i] = u
                                        THEN 1 ELSE 0),
            !.interruptTime   = @ + (IF rec.interrupter = u THEN 1 ELSE 0)]]

\* the user table written by the command for the stored records recs (a user
\* without a row has all counters 0)
RECURSIVE RegenUserTable(_)
RegenUserTable(recs) ==
    IF recs = {}
        THEN [u \in Uids |-> NewUser]
        ELSE LET rec == CHOOSE r \in recs : TRUE
             IN  RegenRecord(RegenUserTable(recs \ {rec}), rec)

----------------------------------------------------------------------------
(* Commands that change the runtimes, the configuration or the tables.  The *)
(* action of a command runs for a session that the middleware passed on.  A *)
(* command that awaits is a task of `cmds`: it goes on when the call it     *)
(* awaits is answered, and runs of the middleware and other commands are    *)
(* handled in between.  A database call takes effect when it is issued.     *)

\* the action of a command runs for a session that the middleware passed on
Executes(line) == env.forwarded = line

\* no command line is passed on or in a run that has not returned
CommandFree ==
    /\ env.forwarded = <<>>
    /\ \A k \in Running(plugin) : plugin.tasks[k].els \notin CommandLines

\* a command under way: pc is the call it awaits, id its argument, rows the
\* rows it has read; of the calls of updateImageText, ocr are the
\* recognitions <<id, i>> and sets the database.set of the rows that are
\* awaited, failed the rows whose updateImageText is rejected
\* the action of the command line begins in c; it awaits the call pc
Begin(c, line, pc, id, rows) ==
    [c EXCEPT !.cmds = Append(@, [line |-> line, pc |-> pc, id |-> id, rows |-> rows,
                                  ocr |-> {}, sets |-> {}, failed |-> {}])]

\* the synchronous part of the action leaves the runtimes and the tables as
\* in c
Executed(c) ==
    /\ plugin' = c
    /\ seen' = IF Running(c) = {} THEN Snapshot(c) ELSE seen
    /\ env' = [env EXCEPT !.forwarded = <<>>]
    /\ UNCHANGED <<now, history, probe, draft>>

\* the action of command j returns or throws
End(c, j) == [c EXCEPT !.cmds[j].pc = "done"]

\* database.upsert('w-repeat-user', () => Object.values(users)): the rows of
\* the users counted (users[uid] ??= ... for the senders and the interrupter
\* of every record) are replaced, the other rows are kept
RegenUpsert(table, recs) ==
    LET mentioned == UNION {Range(rec.senders) \cup {rec.interrupter} : rec \in recs}
    IN  [u \in DOMAIN table |->
            IF u \in mentioned THEN RegenUserTable(recs)[u] ELSE table[u]]

\* database.set('w-repeat-record', { id: rec.id }, { images }) is issued for
\* the row rec read by command j
SetImages(c, j, rec) ==
    [c EXCEPT !.records = {IF r.id = rec.id THEN [r EXCEPT !.images = rec.images]
                           ELSE r : r \in @},
              !.cmds[j].sets = @ \cup {rec.id}]

\* updateImageText(rec) for every row of recs, up to its awaits: the
\* recognitions of the images that are not null are started (the callback
\* throws a TypeError if there is no worker); without such an image
\* database.set is issued at once
RECURSIVE UpdateRows(_, _, _)
UpdateRows(c, j, recs) ==
    IF recs = {} THEN c
    ELSE LET rec      == CHOOSE r \in recs : TRUE
             filtered == SelectSeq(rec.images, LAMBDA x : x # Null)
             c1 == IF filtered = <<>> THEN SetImages(c, j, rec)
                   ELSE IF ~ env.tesseractWorker
                       THEN [c EXCEPT !.cmds[j].failed = @ \cup {rec.id}]
                   ELSE [c EXCEPT !.cmds[j].ocr =
                            @ \cup {<<rec.id, i>> : i \in 1..Len(filtered)}]
         IN  UpdateRows(c1, j, recs \ {rec})

\* after `await tesseractWorker.recognize(...)` of the i-th image that is not
\* null of the row id read by command j: images[i].text = text, which throws
\* a TypeError when images[i] is null; after the last recognition of a row
\* none of which has thrown, database.set is issued
Recognized(c, j, id, i) ==
    LET m        == c.cmds[j]
        rec      == CHOOSE r \in m.rows : r.id = id
        filtered == SelectSeq(rec.images, LAMBDA x : x # Null)
        c1       == [c EXCEPT !.cmds[j].ocr = @ \ {<<id, i>>}]
    IN  IF rec.images[i] = Null
          THEN [c1 EXCEPT !.cmds[j].failed = @ \cup {id}]
          ELSE \* the images of the row the command holds
               LET images == [rec.images EXCEPT
                                 ![i].text = RecognizedText(filtered[i].b64)]
                   c2     == [c1 EXCEPT !.cmds[j].rows =
                                 (@ \ {rec}) \cup {[rec EXCEPT !.images = images]}]
               IN  IF id \notin m.failed /\ ~ \E p \in c1.cmds[j].ocr : p[1] = id
                     THEN SetImages(c2, j, [rec EXCEPT !.images = images])
                     ELSE c2

\* repeat.record <id> [-d | -o] after the call it awaits is answered:
\* database.get, getMemberDict, session.bot.getGuild, then database.remove
\* for -d, and unescapeMessage(rec) with updateImageText(rec) if the worker
\* exists for -o
RecordContinue(c, j) ==
    LET m == c.cmds[j]
    IN  CASE m.pc = "get" ->
                IF m.rows = {} THEN End(c, j)
                ELSE [c EXCEPT !.cmds[j].pc = "getMemberDict"]
          [] m.pc = "getMemberDict" -> [c EXCEPT !.cmds[j].pc = "getGuild"]
          [] m.pc = "getGuild" /\ m.line = Cmd.Delete ->
                [c EXCEPT !.records = {r \in @ : r.id # m.id},
                          !.cmds[j].pc = "remove"]
          [] m.pc = "getGuild" /\ m.line # Cmd.Delete ->
                IF (\E rec \in m.rows : UnescapeThrows(rec)) \/ ~ env.tesseractWorker
                    THEN End(c, j)
                    ELSE UpdateRows(End(c, j), j, m.rows)
          [] OTHER -> End(c, j)

\* regen-user-table after the call it awaits is answered: session.send,
\* database.remove of all users, database.get of the records,
\* database.upsert of the users counted
RegenContinue(c, j) ==
    LET m == c.cmds[j]
    IN  CASE m.pc = "send" ->
                [c EXCEPT !.users = [u \in DOMAIN @ |-> NewUser],
                          !.cmds[j].pc = "remove"]
          [] m.pc = "remove" ->
                [c EXCEPT !.cmds[j].rows = c.records, !.cmds[j].pc = "get"]
          [] m.pc = "get" ->
                [c EXCEPT !.users = RegenUpsert(@, m.rows),
                          !.cmds[j].pc = "upsert"]
          [] OTHER -> End(c, j)

\* recognize-all-images after the call it awaits is answered: session.send,
\* database.get of the rows with images, session.send,
\* Promise.all(recs.map(rec => updateImageText(rec)))
RecognizeContinue(c, j) ==
    LET m == c.cmds[j]
    IN  CASE m.pc = "send" ->
                [c EXCEPT !.cmds[j].rows = {r \in c.records : Len(r.images) > 0},
                          !.cmds[j].pc = "get"]
          [] m.pc = "get" -> [c EXCEPT !.cmds[j].pc = "send2"]
          [] OTHER -> UpdateRows(End(c, j), j, m.rows)

\* the answers command j can receive: <<id, i>> the i-th recognition of the
\* row id, <<id, 0>> the database.set of the row id, <<0, 0>> the call the
\* action itself awaits
CmdAnswers(c, j) ==
    LET m == c.cmds[j]
    IN  m.ocr \cup {<<id, 0>> : id \in m.sets}
              \cup (IF m.pc # "done" THEN {<<0, 0>>} ELSE {})

\* command j receives the answer p and continues up to its next await; it is
\* over when it awaits nothing.  repeat.stat -j: when select(...).execute()
\* is answered, recs.filter(eval(jsfilter)) keeps the rows the filter accepts
\* (rec => rec.senders.length > 2) and getMemberDict is awaited
CmdContinue(c, j, p) ==
    LET m  == c.cmds[j]
        c1 == CASE p \in m.ocr -> Recognized(c, j, p[1], p[2])
                [] p[1] # 0 /\ p[2] = 0 -> [c EXCEPT !.cmds[j].sets = @ \ {p[1]}]
                [] m.line \in {Cmd.Delete, Cmd.Ocr} -> RecordContinue(c, j)
                [] m.line \in {Cmd.Regen, Cmd.IndexRegen} -> RegenContinue(c, j)
                [] m.line = Cmd.Recognize -> RecognizeContinue(c, j)
                [] m.line = Cmd.Stat /\ m.pc = "select" ->
                      [c EXCEPT !.cmds[j].rows = {r \in @ : Len(r.senders) > 2},
                                !.cmds[j].pc = "getMemberDict"]
                [] OTHER -> End(c, j)
    IN  IF CmdAnswers(c1, j) = {} THEN [c1 EXCEPT !.cmds = Drop(@, j)] ELSE c1

\* repeat.debug.runtime.clear [-a]: delete runtimes[gid] for the channel of
\* the session or for every channel; the action awaits nothing
RuntimeClear(gid, all) ==
    /\ Executes(IF all THEN Cmd.ClearAll ELSE Cmd.Clear)
    /\ Executed([plugin EXCEPT !.runtimes =
                    [g \in (DOMAIN @) \ (IF all THEN DOMAIN @ ELSE {gid}) |-> @[g]]])
    /\ UNCHANGED config

\* repeat.admin.conf -S: config.doWrite = ! config.doWrite; the action
\* awaits nothing
ConfSwitch ==
    /\ Executes(Cmd.Switch)
    /\ config' = [config EXCEPT !.doWrite = ~ @]
    /\ Executed(plugin)

\* repeat.debug.eval <code>: eval(code) in the scope of apply, for a code
\* that reads (Object.keys(runtimes)) and one that assigns
\* (config.doWrite = false)
DebugEval ==
    \/ /\ Executes(Cmd.EvalRead)
       /\ Executed(plugin)
       /\ UNCHANGED config
    \/ /\ Executes(Cmd.EvalWrite)
       /\ config' = [config EXCEPT !.doWrite = FALSE]
       /\ Executed(plugin)

\* repeat.stat -j <code>: select('w-repeat-record') of the rows of the
\* channel is issued (every row is within the duration selected)
StatFilter(gid) ==
    /\ Executes(Cmd.Stat)
    /\ Executed(Begin(plugin, Cmd.Stat, "select", 0,
                      {r \in plugin.records : r.gid = gid}))
    /\ UNCHANGED config

\* repeat.record <id> -d: database.get of the row is issued
RecordDelete(id) ==
    /\ Executes(Cmd.Delete)
    /\ Executed(Begin(plugin, Cmd.Delete, "get", id,
                      {r \in plugin.records : r.id = id}))
    /\ UNCHANGED config

\* repeat.record <id> -o: database.get of the row is issued
RecordOcr(id) ==
    /\ Executes(Cmd.Ocr)
    /\ Executed(Begin(plugin, Cmd.Ocr, "get", id,
                      {r \in plugin.records : r.id = id}))
    /\ UNCHANGED config

\* repeat.admin.regen-user-table: session.send is issued
RegenUsers ==
    /\ Executes(Cmd.Regen)
    /\ Executed(Begin(plugin, Cmd.Regen, "send", 0, {}))
    /\ UNCHANGED config

\* repeat.admin.recognize-all-images: session.send is issued if the
\* tesseract service is loaded
RecognizeAllImages ==
    /\ Executes(Cmd.Recognize)
    /\ Executed(IF env.tesseract
                  THEN Begin(plugin, Cmd.Recognize, "send", 0, {})
                  ELSE plugin)
    /\ UNCHANGED config

\* repeat.admin.migrate-guild <from> <to>: database.set of gid is issued
MigrateGuild(from, to) ==
    /\ Executes(Cmd.Migrate)
    /\ Executed(Begin([plugin EXCEPT !.records =
                          {[r EXCEPT !.gid = IF @ = from THEN to ELSE @] : r \in @}],
                      Cmd.Migrate, "set", 0, {}))
    /\ UNCHANGED config

\* the action of the command carried by the session that was passed on
Command(gid) ==
    \/ \E all \in BOOLEAN : RuntimeClear(gid, all)
    \/ ConfSwitch
    \/ DebugEval
    \/ StatFilter(gid)
    \/ RecordDelete(1)
    \/ RecordOcr(1)
    \/ RegenUsers
    \/ RecognizeAllImages
    \/ MigrateGuild(Gid1, Gid2)

\* one call awaited by one command is answered
CommandAnswer ==
    /\ \E j \in 1..Len(plugin.cmds) :
          \E p \in CmdAnswers(plugin, j) : plugin' = CmdContinue(plugin, j, p)
    /\ seen' = IF Running(plugin') = {} THEN Snapshot(plugin') ELSE seen
    /\ UNCHANGED <<config, now, history, probe, draft, env>>

----------------------------------------------------------------------------
(* The middleware of src/src/index.ts: one reactive runtime row per channel. *)
(* draft.rts are the rows made by ctx.reactive.create, draft.runtime is the  *)
(* number of the one held by runtimes[gid] (0: none); a run is a task of     *)
(* draft.tasks that goes on when the call it awaits is answered.             *)

\* null in `images: string[]` (a failed download)
NullB64 == "null"

\* isSameImages of index.ts: b1 === b2 at every position
IndexIsSameImages(images1, images2) ==
    /\ Len(images1) = Len(images2)
    /\ \A i \in 1..Len(images1) : images1[i] = images2[i]

\* state after construction
NoDraft ==
    [rts |-> <<>>, runtime |-> 0, records |-> {}, autoInc |-> 0,
     users |-> [u \in Uids |-> NewUser], tasks |-> <<>>, cmds |-> <<>>,
     log |-> <<>>]

\* the echo test and the return of run k
IndexReturn(d, k) ==
    LET t == d.tasks[k]
    IN  [d EXCEPT
           !.log = Append(@, [uid |-> t.uid, els |-> t.els, content |-> t.content,
                              images |-> t.images, bypassed |-> FALSE,
                              differs |-> t.differs, before |-> t.before,
                              senders |-> t.senders,
                              result |-> IF t.repeatCount = config.repeatCount
                                            THEN "echo" ELSE "next"]),
           !.tasks = Drop(@, k)]

\* after `await patch(...)`: the upserts of a repetition are issued, with
\* runtime.senders as it is now
IndexUpserts(d, k) ==
    LET t       == d.tasks[k]
        senders == d.rts[t.runtime].senders
    IN  IF t.repeatCount > 1
          THEN [d EXCEPT !.users = UpsertStarter(UpsertRepeater(@, t.uid, senders),
                                                 senders),
                         !.tasks[k].pc = "upsert"]
          ELSE IndexReturn(d, k)

\* the callback of patch from the reset of the row on: content, images,
\* startTime = Date.now() and senders = [] if the message differs, then
\* raw.senders.push(uid) and repeatCount; patch writes the row
IndexPush(d, k, differs, time) ==
    LET t     == d.tasks[k]
        raw   == d.rts[t.runtime]
        reset == IF differs
                    THEN [raw EXCEPT !.content = t.content, !.images = t.images,
                                     !.startTime = time, !.senders = <<>>]
                    ELSE raw
        new   == [reset EXCEPT !.senders = Append(@, t.uid)]
    IN  [d EXCEPT !.rts[t.runtime] = new,
                  !.tasks[k].repeatCount = Len(new.senders),
                  !.tasks[k].senders = new.senders,
                  !.tasks[k].pc = "patch"]

\* the callback of patch up to its await: the comparison with the row; for a
\* row with several senders interrupter and endTime = Date.now(),
\* database.create (not awaited) and the upsert of the interrupter
IndexPatch(d, k, time) ==
    LET t       == d.tasks[k]
        raw     == d.rts[t.runtime]
        differs == raw.content = "" \/ raw.content # t.content
                       \/ ~ IndexIsSameImages(t.images, raw.images)
        old     == [raw EXCEPT !.interrupter = t.uid, !.endTime = time]
        d1      == [d EXCEPT !.tasks[k].differs = differs,
                             !.tasks[k].before =
                                 [content |-> raw.content, images |-> raw.images]]
    IN  IF differs /\ raw.content # "" /\ Len(raw.senders) > 1
          THEN [d1 EXCEPT !.rts[t.runtime] = old,
                          !.records = @ \cup {[id |-> d.autoInc + 1] @@ old},
                          !.autoInc = @ + 1,
                          !.users = UpsertInterrupter(@, t.uid),
                          !.tasks[k].pc = "upsertInterrupter"]
          ELSE IndexPush(d1, k, differs, time)

\* runtimes[gid] ??= await ctx.reactive.create(...): the run holds the row of
\* runtimes[gid], or waits for a row to be created
IndexStart(d, k, time) ==
    IF d.runtime # 0
        THEN IndexPatch([d EXCEPT !.tasks[k].runtime = d.runtime], k, time)
        ELSE [d EXCEPT !.tasks[k].pc = "create"]

\* run k continues after the call it awaits is answered, up to its next
\* await or to its return; when ctx.reactive.create('w-repeat-runtime',
\* { gid }, { gid }) is answered the row created is assigned to
\* runtimes[gid], whatever it holds by now, and the callback of patch begins
IndexContinue(d, k, time) ==
    LET t == d.tasks[k]
        row == [gid |-> Gid1, content |-> "", images |-> <<>>, senders |-> <<>>,
                startTime |-> 0, endTime |-> 0, interrupter |-> "undefined"]
    IN  CASE t.pc = "fetch" -> IndexStart(d, k, time)
          [] t.pc = "create" ->
                IndexPatch([d EXCEPT !.rts = Append(@, row),
                                     !.runtime = Len(d.rts) + 1,
                                     !.tasks[k].runtime = Len(d.rts) + 1], k, time)
          [] t.pc = "upsertInterrupter" -> IndexPush(d, k, TRUE, time)
          [] t.pc = "patch" -> IndexUpserts(d, k)
          [] OTHER -> IndexReturn(d, k)

\* the command line of a session that the step passes on
IndexForwarded(d) ==
    IF /\ Len(d.log) > Len(draft.log)
       /\ Last(d.log).result = "next"
       /\ Last(d.log).els \in IndexCommandLines
        THEN Last(d.log).els
        ELSE env.forwarded

\* the step leaves the row, the tables, the runs and the commands as in d
IndexStep(d) ==
    /\ draft' = d
    /\ env' = [env EXCEPT !.forwarded = IndexForwarded(d)]
    /\ UNCHANGED <<config, plugin, seen, history, probe>>

\* ctx.middleware of index.ts for a session of channel Gid1 (the echo
\* threshold of this revision is config.repeatTime, held in
\* config.repeatCount): the early returns, or the run up to its first await
IndexMiddleware(uid, els, fetched) ==
    /\ now' = now + 1
    /\ IF Bypassed(Gid1, els)
         THEN IndexStep([draft EXCEPT !.log = Append(@,
                            [uid |-> uid, els |-> els, content |-> "",
                             images |-> <<>>, bypassed |-> TRUE, differs |-> FALSE,
                             before |-> NoMessage, senders |-> <<>>,
                             result |-> "next"])])
         ELSE \E srcs \in {ImageSrcs(els, config.doProcessImage)} :
              \E d \in {[draft EXCEPT !.tasks = Append(@,
                           [uid |-> uid, els |-> els,
                            content |-> ParseContent(els, config.doProcessImage),
                            images |-> Array([i \in 1..Len(srcs) |->
                                                 IF fetched[i] THEN Base64Of(srcs[i])
                                                               ELSE NullB64]),
                            pc |-> "fetch", runtime |-> 0, repeatCount |-> 0,
                            differs |-> FALSE, before |-> NoMessage,
                            senders |-> <<>>])]} :
                 IndexStep(IF srcs = <<>>
                             THEN IndexStart(d, Len(d.tasks), now + 1)
                             ELSE d)

\* the call awaited by one run is answered
IndexAnswer ==
    /\ \E k \in 1..Len(draft.tasks) : IndexStep(IndexContinue(draft, k, now))
    /\ UNCHANGED now

\* the synchronous part of the action of a command of index.ts leaves the
\* tables as in d
IndexExecuted(d) ==
    /\ draft' = d
    /\ env' = [env EXCEPT !.forwarded = <<>>]
    /\ UNCHANGED <<plugin, seen, now, history, probe>>

\* repeat.conf -S of index.ts: config.doWrite = ! config.doWrite
IndexConfSwitch ==
    /\ Executes(Cmd.IndexSwitch)
    /\ config' = [config EXCEPT !.doWrite = ~ @]
    /\ IndexExecuted(draft)

\* repeat.record <id> -d of index.ts: database.get of the row is issued
IndexRecordDelete(id) ==
    /\ Executes(Cmd.Delete)
    /\ IndexExecuted(Begin(draft, Cmd.Delete, "get", id,
                           {r \in draft.records : r.id = id}))
    /\ UNCHANGED config

\* repeat.debug.regen-user-table of index.ts: session.send is issued
IndexRegenUsers ==
    /\ Executes(Cmd.IndexRegen)
    /\ IndexExecuted(Begin(draft, Cmd.IndexRegen, "send", 0, {}))
    /\ UNCHANGED config

\* the action of the command of index.ts carried by the session passed on
IndexCommand ==
    \/ IndexConfSwitch
    \/ IndexRecordDelete(1)
    \/ IndexRegenUsers

\* one call awaited by one command of index.ts is answered
IndexCommandAnswer ==
    /\ \E j \in 1..Len(draft.cmds) :
          \E p \in CmdAnswers(draft, j) : draft' = CmdContinue(draft, j, p)
    /\ UNCHANGED <<config, plugin, seen, now, history, probe, env>>

----------------------------------------------------------------------------
(* Specifications *)

DefaultConfig ==
    [repeatCount |-> 0, maxUnrelatedCount |-> 5,
     doProcessImage |-> FALSE, doOcr |-> TRUE, doWrite |-> TRUE,
     repeatBlacklist |-> {}]

\* the runtimes, the objects, the tables and the runs after apply
NoPlugin ==
    [runtimes |-> <<>>, rts |-> <<>>, heap |-> <<>>, arrays |-> <<>>,
     records |-> {}, autoInc |-> 0, users |-> [u \in Uids |-> NewUser],
     tasks |-> <<>>, cmds |-> <<>>]

\* the state after apply, the tables being of either kind
InitTables ==
    /\ plugin = NoPlugin
    /\ seen = Snapshot(NoPlugin)
    /\ now = 0
    /\ history = <<>>
    /\ probe = [a |-> NoMessage, b |-> NoMessage, applied |-> FALSE,
                ab |-> FALSE, ba |-> FALSE]
    /\ draft = NoDraft
    \* initTesseract creates the worker when config.doOcr is set; `tesseract`
    \* tells whether the optional service is loaded, `strict` whether the
    \* tables reject a key that is not a declared field; apply does not
    \* return when doOcr is set and the service is missing
    /\ env \in [strict : BOOLEAN,
                 tesseract : {t \in BOOLEAN : config.doOcr => t},
                 tesseractWorker : {config.doOcr},
                 forwarded : {<<>>}]

\* the state after apply for the specifications in which no run passes an
\* undeclared key to a table with a window above 0: one kind of table is
\* enumerated
InitState ==
    /\ InitTables
    /\ config.maxUnrelatedCount # 0 => env.strict

\* all download outcomes for the images of a session content
Fetches(els) == [1..Len(ImageSrcs(els, config.doProcessImage)) -> BOOLEAN]

\* a session of channel Gid1 is dispatched when no run is under way (the
\* sessions are handled one at a time); no database call is rejected
Session(uids, raws) ==
    /\ Running(plugin) = {}
    /\ \E uid \in uids, els \in raws :
          \E fetched \in Fetches(els) :
             Arrive(Gid1, uid, els, now + 1, fetched, NoFailure)

\* three texts of two users, echo disabled, windows 0, 1 and 3
Init ==
    /\ config \in {[DefaultConfig EXCEPT !.maxUnrelatedCount = w] : w \in {0, 1, 3}}
    /\ InitState

Next ==
    \/ /\ now < MaxMsgs
       /\ Session({"u1", "u2"}, {Raw.A, Raw.B, Raw.C})
    \/ Answer

Spec == Init /\ [][Next]_vars

\* two texts of three users (the scenarios of the specification)
InitScn ==
    /\ config \in {[DefaultConfig EXCEPT !.maxUnrelatedCount = w] : w \in {1, 3}}
    /\ InitState

NextScn ==
    \/ /\ now < MaxScnMsgs
       /\ Session(Uids, {Raw.A, Raw.B})
    \/ Answer

SpecScn == InitScn /\ [][NextScn]_vars

\* two users, two texts, windows 0 and 1, longer runs
InitLong ==
    /\ config \in {[DefaultConfig EXCEPT !.maxUnrelatedCount = w] : w \in {0, 1}}
    /\ InitState

NextLong ==
    \/ /\ now < MaxLongMsgs
       /\ Session({"u1", "u2"}, {Raw.A, Raw.B})
    \/ Answer

SpecLong == InitLong /\ [][NextLong]_vars

\* messages with one image whose download succeeds or fails
InitImg ==
    /\ config \in {[DefaultConfig EXCEPT !.maxUnrelatedCount = w,
                                         !.doProcessImage = p] :
                      w \in {0, 1}, p \in BOOLEAN}
    /\ InitState

NextImg ==
    \/ /\ now < MaxImgMsgs
       /\ Session({"u1", "u2"}, {Raw.P, Raw.Q})
    \/ Answer

SpecImg == InitImg /\ [][NextImg]_vars

\* echo thresholds 0 to 3, two users, two texts, windows 0 and 1
MaxEchoMsgs == 5

InitEcho ==
    /\ config \in {[DefaultConfig EXCEPT !.maxUnrelatedCount = w,
                                         !.repeatCount = t] :
                      w \in {0, 1}, t \in 0..3}
    /\ InitState

NextEcho ==
    \/ /\ now < MaxEchoMsgs
       /\ Session({"u1", "u2"}, {Raw.A, Raw.B})
    \/ Answer

SpecEcho == InitEcho /\ [][NextEcho]_vars

\* echo thresholds 6 and 7, one user, three texts, window 1, long runs
MaxEchoLongMsgs == 9

InitEchoLong ==
    /\ config \in {[DefaultConfig EXCEPT !.maxUnrelatedCount = 1,
                                         !.repeatCount = t] : t \in {6, 7}}
    /\ InitState

NextEchoLong ==
    \/ /\ now < MaxEchoLongMsgs
       /\ Session({"u1"}, {Raw.A, Raw.B, Raw.C})
    \/ Answer

SpecEchoLong == InitEchoLong /\ [][NextEchoLong]_vars

\* sessions in and outside a guild, dispatched while up to MaxOverlap runs
\* are under way, with the write switch on or off at the start and switched
\* by repeat.admin.conf -S, with an empty blacklist and with the text B
\* blacklisted; tables of either kind
MaxBypMsgs == 5

InitByp ==
    /\ config \in {[DefaultConfig EXCEPT !.maxUnrelatedCount = 1,
                                         !.doWrite = w,
                                         !.repeatBlacklist = b] :
                      w \in BOOLEAN, b \in {{}, {[literal |-> "B"]}}}
    /\ InitTables

NextByp ==
    \/ /\ now < MaxBypMsgs
       /\ Cardinality(Running(plugin)) < MaxOverlap
       /\ \E gid \in {Gid1, NoGuild}, els \in {Raw.A, Raw.B, Cmd.Switch} :
             /\ els = Cmd.Switch => CommandFree
             /\ \/ Bypass(gid, "u1", els)
                \/ \E fetched \in Fetches(els) :
                      Arrive(gid, "u1", els, now + 1, fetched, NoFailure)
    \/ Answer
    \/ ConfSwitch

SpecByp == InitByp /\ [][NextByp]_vars

\* long runs with window 1: u1 sends three texts and u2 only repeats A
MaxResMsgs == 9

InitRes ==
    /\ config = [DefaultConfig EXCEPT !.maxUnrelatedCount = 1]
    /\ InitState

NextRes ==
    \/ /\ now < MaxResMsgs
       /\ \/ Session({"u1"}, {Raw.A, Raw.B, Raw.C})
          \/ Session({"u2"}, {Raw.A})
    \/ Answer

SpecRes == InitRes /\ [][NextRes]_vars

\* sessions of two users with two texts, window 1, dispatched while up to
\* MaxOverlap runs are under way
MaxConcMsgs == 5

InitConc ==
    /\ config = [DefaultConfig EXCEPT !.maxUnrelatedCount = 1]
    /\ InitTables

NextConc ==
    \/ /\ now < MaxConcMsgs
       /\ Cardinality(Running(plugin)) < MaxOverlap
       /\ \E uid \in {"u1", "u2"}, els \in {Raw.A, Raw.B} :
             \E fetched \in Fetches(els) :
                Arrive(Gid1, uid, els, now + 1, fetched, NoFailure)
    \/ Answer

SpecConc == InitConc /\ [][NextConc]_vars

\* sessions handled one at a time by one user with three texts, window 1; B
\* and C are only sent right after an A
MaxReplayMsgs == 11

InitReplay ==
    /\ config = [DefaultConfig EXCEPT !.maxUnrelatedCount = 1]
    /\ InitState

NextReplay ==
    \/ /\ now < MaxReplayMsgs
       /\ Running(plugin) = {}
       /\ \E els \in {Raw.A, Raw.B, Raw.C} :
             /\ els = Raw.A \/ (history # <<>> /\ history[Len(history)].els = Raw.A)
             /\ \E fetched \in Fetches(els) :
                   Arrive(Gid1, "u1", els, now + 1, fetched, NoFailure)
    \/ Answer

SpecReplay == InitReplay /\ [][NextReplay]_vars

\* sessions of two users with two texts, window 1, handled one at a time, in
\* which the database may reject one of the calls a run awaits
MaxFailMsgs == 5

\* the calls of a run the database may reject
Failures ==
    {NoFailure}
        \cup {Failure(call, 0) : call \in {"upsertRepeater", "upsertStarter", "create",
                                         "upsertInterrupter"}}
        \cup {Failure("remove", id) : id \in 1..plugin.autoInc}

InitFail ==
    /\ config = [DefaultConfig EXCEPT !.maxUnrelatedCount = 1]
    /\ InitTables

NextFail ==
    \/ /\ now < MaxFailMsgs
       /\ Running(plugin) = {}
       /\ \E uid \in {"u1", "u2"}, els \in {Raw.A, Raw.B}, failing \in Failures :
             \E fetched \in Fetches(els) :
                Arrive(Gid1, uid, els, now + 1, fetched, failing)
    \/ Answer

SpecFail == InitFail /\ [][NextFail]_vars

\* image messages and a text that is the placeholder of an image, with
\* processing on and echo thresholds 1 and 2, window 1
MaxImgEchoMsgs == 4

InitImgEcho ==
    /\ config \in {[DefaultConfig EXCEPT !.maxUnrelatedCount = 1,
                                         !.doProcessImage = TRUE,
                                         !.repeatCount = t] : t \in {1, 2}}
    /\ InitState

NextImgEcho ==
    \/ /\ now < MaxImgEchoMsgs
       /\ Session({"u1", "u2"}, {Raw.A, Raw.P, Raw.Q, Raw.H})
    \/ Answer

SpecImgEcho == InitImgEcho /\ [][NextImgEcho]_vars

\* two channels, two users, two texts, window 1
MaxTwoMsgs == 5

InitTwo ==
    /\ config = [DefaultConfig EXCEPT !.maxUnrelatedCount = 1]
    /\ InitState

NextTwo ==
    \/ /\ now < MaxTwoMsgs
       /\ Running(plugin) = {}
       /\ \E gid \in {Gid1, Gid2}, uid \in {"u1", "u2"}, els \in {Raw.A, Raw.B} :
             \E fetched \in Fetches(els) :
                Arrive(gid, uid, els, now + 1, fetched, NoFailure)
    \/ Answer

SpecTwo == InitTwo /\ [][NextTwo]_vars

\* messages and commands in one channel: u1 sends two texts, a message with
\* an image and up to MaxAdminCmds command lines, u2 repeats the text A; up
\* to MaxOverlap runs and commands are under way; window 1, images
\* processed, recognised or not; tables of either kind
MaxAdminMsgs == 4

MaxAdminCmds == 1

InitAdmin ==
    /\ config \in {[DefaultConfig EXCEPT !.maxUnrelatedCount = 1,
                                         !.doProcessImage = TRUE,
                                         !.doOcr = o] : o \in BOOLEAN}
    /\ InitTables

NextAdmin ==
    \/ /\ now < MaxAdminMsgs
       /\ Cardinality(Running(plugin)) + Len(plugin.cmds) < MaxOverlap
       /\ \E uid \in {"u1", "u2"}, els \in {Raw.A, Raw.B, Raw.P} \cup CommandLines :
             /\ uid = "u2" => els = Raw.A
             /\ els \in CommandLines
                   => /\ CommandFree
                      /\ Cardinality({k \in 1..Len(history) :
                                         history[k].els \in CommandLines})
                             < MaxAdminCmds
             /\ \/ Bypass(Gid1, uid, els)
                \/ \E fetched \in Fetches(els) :
                      Arrive(Gid1, uid, els, now + 1, fetched, NoFailure)
    \/ Answer
    \/ Command(Gid1)
    \/ CommandAnswer

SpecAdmin == InitAdmin /\ [][NextAdmin]_vars

\* the middleware and the commands of index.ts: image messages of two users
\* with image processing on or off, echo disabled, u1 sends the commands; up
\* to MaxOverlap runs and commands are under way
MaxIndexMsgs == 4

InitIndex ==
    /\ config \in {[DefaultConfig EXCEPT !.doProcessImage = p] : p \in BOOLEAN}
    /\ InitState

NextIndex ==
    \/ /\ now < MaxIndexMsgs
       /\ Len(draft.tasks) + Len(draft.cmds) < MaxOverlap
       /\ \E uid \in {"u1", "u2"}, els \in {Raw.A, Raw.P} \cup IndexCommandLines :
             /\ els \in IndexCommandLines
                   => /\ uid = "u1"
                      /\ env.forwarded = <<>>
                      /\ \A k \in 1..Len(draft.tasks) :
                            draft.tasks[k].els \notin IndexCommandLines
             /\ \E fetched \in Fetches(els) : IndexMiddleware(uid, els, fetched)
    \/ IndexAnswer
    \/ IndexCommand
    \/ IndexCommandAnswer

SpecIndex == InitIndex /\ [][NextIndex]_vars

\* direct calls of isSameMessage on messages with up to MaxImages images
MaxImages == 2

ProbeMessages ==
    [content : {"A", "B"},
     images  : UNION {[1..n -> {RepeatImage("b1"), RepeatImage("b2"), Null}] :
                         n \in 0..MaxImages}]

InitEq ==
    /\ config = DefaultConfig
    /\ plugin = NoPlugin
    /\ seen = Snapshot(NoPlugin)
    /\ now = 0
    /\ history = <<>>
    /\ draft = NoDraft
    /\ env = [strict |-> TRUE, tesseract |-> TRUE,
              tesseractWorker |-> config.doOcr, forwarded |-> <<>>]
    /\ probe \in [a : ProbeMessages, b : ProbeMessages, applied : {FALSE},
                  ab : {FALSE}, ba : {FALSE}]

\* isSameMessage is applied to the two messages, in both orders
NextEq ==
    /\ ~ probe.applied
    /\ probe' = [probe EXCEPT !.applied = TRUE,
                              !.ab = isSameMessage(probe.a, probe.b),
                              !.ba = isSameMessage(probe.b, probe.a)]
    /\ UNCHANGED <<config, plugin, seen, now, history, draft, env>>

SpecEq == InitEq /\ [][NextEq]_vars
----------------------------------------------------------------------------
(* Properties *)


\* the first k sessions carry pairwise equal messages
IdenticalRun(k) ==
    \A i \in 1..k : isSameMessage(history[i].message, history[1].message)

\* C1: from a fresh channel, k >= 2 equal messages of senders s1..sk followed
\* by a different message of sender t create exactly one record, while the
\* (k+1)-th message is processed and not earlier, with senders = [s1..sk]
\* and interrupter = t.
C1_OneRecordAtInterruption ==
    \A k \in 2..(Len(history) - 1) :
        (IdenticalRun(k) /\ ~ isSameMessage(history[k + 1].message, history[1].message))
        => /\ \A i \in 1..k : history[i].created = {}
           /\ \E r \in history[k + 1].created :
                /\ history[k + 1].created = {r}
                /\ r.senders = [i \in 1..k |-> history[i].uid]
                /\ r.interrupter = history[k + 1].uid
                /\ r.content = history[1].message.content
                /\ r.images = history[1].message.images

\* C2: after [u1:"hi", u2:"hi", u3:"hi"] on a fresh engine (three different
\* users) beRepeatedTime(u1) = 1, repeatTime(u2) = repeatTime(u3) = 1 and
\* repeatCount(u2) = repeatCount(u3) = 1.
C2_ScenarioACounters ==
    (/\ Len(history) = 3
     /\ IdenticalRun(3)
     /\ Cardinality({history[i].uid : i \in 1..3}) = 3)
    => /\ seen.users[history[1].uid].beRepeatedTime = 1
       /\ seen.users[history[2].uid].repeatTime = 1
       /\ seen.users[history[3].uid].repeatTime = 1
       /\ seen.users[history[2].uid].repeatCount = 1
       /\ seen.users[history[3].uid].repeatCount = 1

C2_Witness ==
    /\ Len(history) = 3
    /\ IdenticalRun(3)
    /\ <<history[1].uid, history[2].uid, history[3].uid>> = <<"u1", "u2", "u3">>
    /\ seen.users["u1"].beRepeatedTime = 1
    /\ seen.users["u3"].repeatCount = 1

----------------------------------------------------------------------------
(* The step of one session, seen from its two states *)

\* a run of the middleware for a session of channel Gid1 returns in this
\* step: with sessions handled one at a time, `seen` is the state before
\* the session and seen' the state after it
Handled == Len(history') = Len(history) + 1 /\ ~ Last(history').bypassed

\* the log entry of the session handled in this step
Ev == Last(history')

\* isSameMessage(thisMessage, rec) for a reference rec into the heap h
isSameAsRef(h, message, a) ==
    /\ a # Undefined
    /\ isSameMessage(message, h[a])

\* runtime of the channel when last no run was under way (before the step)
Rt == IF Gid1 \in DOMAIN seen.runtimes THEN seen.runtimes[Gid1] ELSE NoRuntime

HasCurrent == Rt.currentRec # Undefined

\* the pre-transition `current`
Cur == seen.heap[Rt.currentRec]

\* the message of the step does not match the pre-transition `current`,
\* which has at least two senders
InterruptsCurrent ==
    /\ Handled
    /\ HasCurrent
    /\ Len(Cur.senders) >= 2
    /\ ~ isSameMessage(Ev.message, Cur)

Ids(rows) == {r.id : r \in rows}

\* the draft a record stems from
DraftOf(r) == <<r.gid, r.content, r.images, r.startTime>>

\* the first four messages of scenario B have been handled
IsScenarioB ==
    /\ Len(history) >= 4
    /\ config.maxUnrelatedCount >= 3
    /\ [i \in 1..4 |-> <<history[i].uid, history[i].els>>]
         = << <<"u1", Raw.A>>, <<"u2", Raw.A>>, <<"u3", Raw.B>>, <<"u1", Raw.A>> >>

----------------------------------------------------------------------------
\* the first two parts of scenario B: the "A" repetition is stored once, at
\* message 3, and its row is deleted by message 4, which resumes it
C3_ScenarioB ==
    IsScenarioB
    => /\ history[1].created = {} /\ history[2].created = {}
       /\ \E r \in history[3].created :
             /\ history[3].created = {r}
             /\ r.content = "A"
             /\ r.senders = <<"u1", "u2">>
             /\ history[4].removed = {r.id}
             /\ history[4].resumed

\* the step of C3: the message resumes every record of suspendedRecs it
\* equals (there is one such record at most while the statement holds)
C3_Step ==
    Handled =>
        \A i \in 1..Len(Rt.suspendedRecs) :
            LET a == Rt.suspendedRecs[i] IN
            isSameMessage(Ev.message, seen.heap[a])
            => /\ a \notin Range(Rt'.suspendedRecs)
               /\ seen.heap[a].id \in Ev.removed
               /\ seen.heap[a].id \notin Ids(seen'.records)
               /\ seen'.heap[Rt'.currentRec].suspensions
                    = Append(seen.heap[a].suspensions,
                             [suspendTime |-> seen.heap[a].suspendTime,
                              resumeTime  |-> now'])

\* C3: whenever the message equals a record still in suspendedRecs, this very
\* message resumes it: the record leaves suspendedRecs, its row is deleted
\* and it becomes current with one new suspension.  In scenario B
\* [u1:"A", u2:"A", u3:"B", u1:"A", u2:"A"] with window >= 3 the "A"
\* repetition is stored once at message 3 and is deleted and resumed at
\* message 4.
C3_ResumesOnAnyMatch == [][C3_Step]_vars /\ [] C3_ScenarioB

----------------------------------------------------------------------------
\* C4: the record table never holds two records that stem from the same
\* draft (same channel, same content, same start time).
C4_NoDuplicateRecords ==
    \A r1, r2 \in seen.records : DraftOf(r1) = DraftOf(r2) => r1 = r2

----------------------------------------------------------------------------
\* suspend/resume cycles of a draft as the database saw them: a row of the
\* draft created at one session and removed at a later one
CyclesOf(d) ==
    {<<history[j].time, history[k].time>> :
        <<j, k>> \in {jk \in (1..Len(history)) \X (1..Len(history)) :
                        /\ jk[1] < jk[2]
                        /\ \E r \in history[jk[1]].created :
                              /\ DraftOf(r) = d
                              /\ r.id \in history[jk[2]].removed}}

\* C5: an episode that went through n suspend/resume cycles and is then
\* interrupted is re-persisted with exactly n suspensions, in chronological
\* order, holding the times of the interruptions and of the resumptions.
C5_SuspensionsOfReinterrupted ==
    [][(InterruptsCurrent /\ CyclesOf(DraftOf(Cur)) # {})
        => \E r \in Ev.created :
              /\ DraftOf(r) = DraftOf(Cur)
              /\ Len(r.suspensions) = Cardinality(CyclesOf(DraftOf(Cur)))
              /\ {<<r.suspensions[i].suspendTime, r.suspensions[i].resumeTime>> :
                    i \in 1..Len(r.suspensions)} = CyclesOf(DraftOf(Cur))
              /\ \A i, j \in 1..Len(r.suspensions) :
                    i < j => r.suspensions[i].resumeTime <= r.suspensions[j].suspendTime
    ]_vars

----------------------------------------------------------------------------
\* senders of the sessions after time t whose message equals the record
RECURSIVE LaterSenders(_, _)
LaterSenders(t, rec) ==
    IF t >= Len(history) THEN <<>>
    ELSE (IF isSameMessage(history[t + 1].message, rec)
            THEN <<history[t + 1].uid>> ELSE <<>>)
         \o LaterSenders(t + 1, rec)

\* C6: a resumed episode becomes current and receives the triggering sender
\* once; the record persisted at the next interruption lists the senders
\* from before the suspension followed by the senders of all later matching
\* messages, in arrival order.
C6_SendersOfResumed ==
    [][/\ (Handled /\ Ev.resumed)
          => \E a \in Range(Rt.suspendedRecs) :
                seen'.heap[Rt'.currentRec].senders
                    = Append(seen.heap[a].senders, Ev.uid)
       /\ (InterruptsCurrent /\ Cur.suspensions # <<>>)
          => \E r \in Ev.created :
                \E p \in history[Last(Cur.suspensions).suspendTime].created :
                    /\ DraftOf(r) = DraftOf(p)
                    /\ r.senders = p.senders \o
                          LaterSenders(Last(Cur.suspensions).suspendTime, p)
    ]_vars

----------------------------------------------------------------------------
\* C7: a message with the text of current and a failed image does not extend
\* the episode: the sender is not appended to current, and a current with at
\* least two senders is persisted with this sender as interrupter.
C7_FailedImageInterrupts ==
    [][(/\ Handled
        /\ HasCurrent
        /\ Null \in Range(Ev.message.images)
        /\ Ev.message.content = Cur.content)
        => /\ seen'.heap[Rt.currentRec].senders = Cur.senders
           /\ Rt'.currentRec # Rt.currentRec
           /\ seen'.heap[Rt'.currentRec].senders = <<Ev.uid>>
           /\ Len(Cur.senders) >= 2
              => \E r \in Ev.created :
                    /\ Ev.created = {r}
                    /\ r \in seen'.records
                    /\ r.content = Cur.content
                    /\ r.images = Cur.images
                    /\ r.senders = Cur.senders
                    /\ r.interrupter = Ev.uid
    ]_vars

----------------------------------------------------------------------------
\* C8: isSameMessage(a, b) holds iff the contents are identical, the image
\* lists have the same length, no image of either list is null and images at
\* the same position have the same b64; it is symmetric, and a message with
\* a null image equals no message, itself included.
C8_EqualityCharacterised ==
    probe.applied =>
        /\ probe.ab <=>
              (/\ probe.a.content = probe.b.content
               /\ Len(probe.a.images) = Len(probe.b.images)
               /\ \A i \in 1..Len(probe.a.images) :
                     /\ ~ probe.a.images[i].isNull
                     /\ ~ probe.b.images[i].isNull
                     /\ probe.a.images[i].b64 = probe.b.images[i].b64)
        /\ probe.ab <=> probe.ba
        /\ (\E i \in 1..Len(probe.a.images) : probe.a.images[i].isNull)
              => ~ probe.ab /\ ~ probe.ba

C8_Witness ==
    /\ probe.applied
    /\ probe.ab
    /\ Len(probe.a.images) = 2
    /\ probe.a.images[1] # probe.a.images[2]

----------------------------------------------------------------------------
\* C9: when a message that does not match current arrives while current has
\* at least two senders, the record created by the transition carries the
\* content and senders of that pre-transition current and the sender of the
\* message as interrupter, also when a candidate is promoted.
C9_InterruptedCurrentIsPersisted ==
    [][InterruptsCurrent
        => \E r \in Ev.created :
              /\ Ev.created = {r}
              /\ r.content = Cur.content
              /\ r.images = Cur.images
              /\ r.senders = Cur.senders
              /\ r.interrupter = Ev.uid
    ]_vars

----------------------------------------------------------------------------
\* C10: every created record has at least two senders; a non-matching
\* message arriving at a draft with at most one sender creates no record.
C10_OnlyCompleteRepeatsPersisted ==
    /\ [] (\A k \in 1..Len(history) : \A r \in history[k].created :
                Len(r.senders) >= 2)
    /\ [] (\A r \in seen.records : Len(r.senders) >= 2)
    /\ [][(/\ Handled
           /\ (~ HasCurrent \/ Len(Cur.senders) <= 1)
           /\ ~ isSameAsRef(seen.heap, Ev.message, Rt.currentRec))
           => /\ Ev.created = {}
              /\ seen'.records \subseteq seen.records
              /\ seen'.autoInc = seen.autoInc
       ]_vars

C10_Witness ==
    /\ Len(history) >= 4
    /\ history[Len(history) - 1].isNewRec
    /\ Last(history).isNewRec
    /\ Last(history).created = {}
    /\ seen.records # {}

----------------------------------------------------------------------------
(* Candidate promotion, presence of current, staleness *)

\* the message of the i-th session
Msg(i) == history[i].message

\* C11: for A(s1), B(s2), A(s3) with window >= 1 the third message promotes
\* the candidate A to current with senders [s1, s3] and creates no fresh
\* draft; after a further A(s4) and a message of s5 that differs from A, the
\* record persisted has senders [s1, s3, s4] and interrupter s5.
C11_PromotedKeepsStarter ==
    (/\ Len(history) >= 3
     /\ config.maxUnrelatedCount >= 1
     /\ ~ isSameMessage(Msg(2), Msg(1))
     /\ isSameMessage(Msg(3), Msg(1)))
    => /\ history[3].promoted
       /\ ~ history[3].isNewRec
       /\ Len(history) = 3
            => Cur.senders = <<history[1].uid, history[3].uid>>
       /\ (/\ Len(history) >= 5
           /\ isSameMessage(Msg(4), Msg(1))
           /\ ~ isSameMessage(Msg(5), Msg(1)))
          => \E r \in history[5].created :
                /\ history[5].created = {r}
                /\ r.senders = <<history[1].uid, history[3].uid, history[4].uid>>
                /\ r.interrupter = history[5].uid

\* C13: once the first message of the channel that is not bypassed has been
\* processed, the current record of the channel is defined and has at least
\* one sender after every later transition.
C13_CurrentDefined ==
    (\E i \in 1..Len(history) : history[i].gid = Gid1 /\ ~ history[i].bypassed)
    => /\ HasCurrent
       /\ Cur.senders # <<>>

\* a suspended repetition has just been resumed and is the current record
C13_Witness ==
    /\ Len(history) >= 2
    /\ Last(history).resumed
    /\ Last(history).isRepeating
    /\ HasCurrent
    /\ Len(Cur.senders) >= 3

\* the addresses of the entries of queuedRecs and suspendedRecs of the channel
Entries == Range(Rt.queuedRecs) \cup Range(Rt.suspendedRecs)

\* C14: after every transition every entry of queuedRecs and suspendedRecs
\* has unrelatedCount <= maxUnrelatedCount: an entry whose count exceeds the
\* window is removed by the transition that made it exceed.
C14_StalenessWithinWindow ==
    \A a \in Entries :
        /\ seen.heap[a].unrelatedCount <= config.maxUnrelatedCount
        /\ ~ seen.heap[a].deleted

\* a suspended entry and a queued entry have exceeded the window and are gone
\* while other entries remain
C14_Witness ==
    /\ Rt.queuedRecs # <<>>
    /\ \E a \in (1..Len(seen.heap)) \ Entries :
          /\ "suspendTime" \in DOMAIN seen.heap[a]
          /\ seen.heap[a].unrelatedCount > config.maxUnrelatedCount
    /\ \E a \in (1..Len(seen.heap)) \ Entries :
          /\ "suspendTime" \notin DOMAIN seen.heap[a]
          /\ seen.heap[a].unrelatedCount > config.maxUnrelatedCount

----------------------------------------------------------------------------
(* Echo *)

\* C15: with echo threshold 0 no run of the middleware returns the message:
\* every run ends with next(), whatever the number of senders of current.
C15_ThresholdZeroNeverEchoes ==
    config.repeatCount = 0
    => \A i \in 1..Len(history) : history[i].result = "next"

\* C16: with echo threshold T > 0 a run of the middleware echoes the message
\* (and does not call next) if and only if the number of senders of the
\* channel's current record after the run equals T, also when the run
\* resumes a suspended repetition.
C16_EchoStep ==
    (Handled /\ config.repeatCount > 0)
    => ((Ev.result = "echo") <=> (Len(Cur'.senders) = config.repeatCount))

C16_EchoIffThreshold == [][C16_EchoStep]_vars

----------------------------------------------------------------------------
(* Window 0 *)

\* with window 0: nothing is suspended, no record has been removed, and for
\* A(s1), B(s2), A(s3) the current record has senders [s3]
C17_State ==
    config.maxUnrelatedCount = 0
    => /\ Rt.suspendedRecs = <<>>
       /\ \A i \in 1..Len(history) : history[i].removed = {} /\ ~ history[i].resumed
       /\ (/\ Len(history) = 3
           /\ ~ isSameMessage(Msg(2), Msg(1))
           /\ isSameMessage(Msg(3), Msg(1)))
          => /\ Cur.senders = <<history[3].uid>>
             /\ history[3].isNewRec

\* with window 0 a message removes every entry of queuedRecs it does not match
C17_Step ==
    (Handled /\ config.maxUnrelatedCount = 0)
    => \A a \in Range(Rt.queuedRecs) :
          ~ isSameMessage(Ev.message, seen.heap[a]) => a \notin Range(Rt'.queuedRecs)

\* C17: with window 0 suspendedRecs is empty after every transition, no
\* record is ever deleted, an entry of queuedRecs is removed by the first
\* message that does not match it, and A(s1), B(s2), A(s3) leaves current
\* with senders [s3].
C17_WindowZero == [] C17_State /\ [][C17_Step]_vars

\* window 0: a displaced draft was not revived and a repetition was persisted
C17_Witness ==
    /\ config.maxUnrelatedCount = 0
    /\ Len(history) >= 5
    /\ ~ isSameMessage(Msg(2), Msg(1))
    /\ isSameMessage(Msg(3), Msg(1))
    /\ history[3].isNewRec
    /\ seen.records # {}

----------------------------------------------------------------------------
(* Bypassed messages *)

\* the session dispatched in this step: logged if its run has returned in
\* the step, a task otherwise
Received == IF Len(history') = Len(history) + 1 THEN Ev ELSE Last(plugin'.tasks)

\* a session is dispatched in this step while the write switch is off, or
\* with a content that a blacklist pattern matches
SwitchOffOrBlacklisted ==
    /\ now' = now + 1
    /\ \/ ~ config.doWrite
       \/ \E re \in config.repeatBlacklist :
             RegExpTest(re, ParseContent(Received.els, FALSE))

\* C18: a message received while doWrite is off, or whose raw content matches
\* a pattern of the blacklist, is forwarded to the next middleware and leaves
\* the runtimes (current, queued and suspended records with their counters),
\* the records and the user counters unchanged.
C18_BypassStep ==
    SwitchOffOrBlacklisted
    => /\ Len(history') = Len(history) + 1
       /\ Ev.result = "next"
       /\ Ev.created = {} /\ Ev.removed = {}
       /\ Snapshot(plugin)' = Snapshot(plugin)
       /\ UNCHANGED seen

C18_BypassChangesNothing == [][C18_BypassStep]_vars

\* in a guild whose current record had two senders a blacklisted message was
\* bypassed, a record was stored, the write switch was turned off by the
\* command, and a message has just been bypassed for that
C18_Witness ==
    /\ ~ config.doWrite
    /\ seen.records # {}
    /\ HasCurrent
    /\ Len(history) >= 5
    /\ Last(history).gid = Gid1
    /\ Last(history).bypassed
    /\ ~ Last(history).doWrite
    /\ Last(history).els = Raw.A
    /\ \E k \in 3..Len(history) :
          /\ history[k].gid = Gid1
          /\ history[k].bypassed
          /\ history[k].doWrite
          /\ history[k - 1].isRepeating
          /\ history[k - 1].gid = Gid1

----------------------------------------------------------------------------
(* User counters *)

\* the session just logged extends a repetition as its second or later
\* sender: it repeats the current record or promotes a queued one
Extends == Handled /\ (Ev.isRepeating \/ Ev.promoted)

\* C19: every message that extends a repetition as its second or later sender
\* increases repeatCount of its sender by exactly 1, whatever the counters of
\* that user were.
C19_Step ==
    Extends => seen'.users[Ev.uid].repeatCount = seen.users[Ev.uid].repeatCount + 1

C19_RepeatCountByOne == [][C19_Step]_vars

\* the repetitions (identified as in DraftOf) of which u is a second or later
\* sender in some record of the heap
RepeatedIn(u) ==
    {DraftOf(seen.heap[a]) : a \in {b \in 1..Len(seen.heap) :
                                  /\ Len(seen.heap[b].senders) >= 2
                                  /\ u \in Range(Tail(seen.heap[b].senders))}}

\* C20: within one repetition repeatTime of a sender is incremented at most
\* once, also when the repetition is promoted from the queue or suspended
\* and resumed: repeatTime of a user never exceeds the number of
\* repetitions the user has repeated in.
C20_RepeatTimeOncePerEpisode ==
    \A u \in Uids : seen.users[u].repeatTime <= Cardinality(RepeatedIn(u))

----------------------------------------------------------------------------
(* Overlapping sessions *)

\* a record object without the times read from the clock while it is handled
Proj(rec) ==
    [content |-> rec.content, images |-> rec.images, senders |-> rec.senders,
     startTime |-> rec.startTime, interrupter |-> rec.interrupter,
     unrelatedCount |-> rec.unrelatedCount,
     suspensions |-> Len(rec.suspensions)]

ProjRow(r) ==
    [id |-> r.id, content |-> r.content, images |-> r.images,
     senders |-> r.senders, startTime |-> r.startTime,
     interrupter |-> r.interrupter, suspensions |-> Len(r.suspensions)]

\* the runtime of the channel, the record table, the number of records
\* created and the user table
View(rt, h, rows, n, table) ==
    [currentRec    |-> Proj(h[rt.currentRec]),
     queuedRecs    |-> Array([i \in 1..Len(rt.queuedRecs) |-> Proj(h[rt.queuedRecs[i]])]),
     suspendedRecs |-> Array([i \in 1..Len(rt.suspendedRecs) |->
                                 Proj(h[rt.suspendedRecs[i]])]),
     records       |-> {ProjRow(r) : r \in rows},
     created       |-> n,
     users         |-> table]

\* sessions were handled, every run has returned and no answer is
\* outstanding
AllReturned ==
    /\ history # <<>>
    /\ plugin.tasks = <<>>

\* the run k of c receives its answers, one after the other, until none is
\* outstanding: the states it can end in, one for every order of the answers
RECURSIVE RunToEnd(_, _)
RunToEnd(c, k) ==
    IF Answers(c, k) = {} THEN {c}
    ELSE UNION {RunToEnd(c2, k) :
                   c2 \in {Continue(c, k, p, c.tasks[k].time) : p \in Answers(c, k)}}

\* the sessions of `log` handled from c on, one after the other, each run to
\* its end before the next is dispatched: the states this can end in
RECURSIVE Serial(_, _)
Serial(c, log) ==
    IF log = <<>> THEN {c}
    ELSE LET e == Head(log)
         IN  UNION {Serial(c2, Tail(log)) :
                       c2 \in UNION {RunToEnd(c1, Len(c1.tasks)) :
                                        c1 \in {Dispatch(c, NewTask(e.gid, e.uid, e.els,
                                                                    e.message, e.timestamp,
                                                                    e.time, NoFailure))}}}

\* C12: when the runs of the middleware for the sessions of one channel
\* overlap, the runtime, the records created and deleted, the user counters
\* and the results are, once all runs have returned, those of handling the
\* sessions one after the other in the order of their arrival.
C12_OverlapEqualsArrivalOrder ==
    AllReturned
    => LET log == Array([i \in 1..Len(history) |->
                           history[CHOOSE j \in 1..Len(history) : history[j].time = i]])
       IN  \E c \in Serial(NoPlugin, log) :
              /\ View(RuntimeIn(plugin, Gid1), HeapOf(plugin), plugin.records,
                      plugin.autoInc, plugin.users)
                 = View(RuntimeIn(c, Gid1), HeapOf(c), c.records, c.autoInc, c.users)
              /\ \A k \in 1..Len(log) : log[k].result = c.tasks[k].result

----------------------------------------------------------------------------
(* Starter and interrupter counters, determinism *)

\* the session just logged brings the sender list of the channel's current
\* record to length 2 (by repeating it or by promoting a queued record)
BecomesReal == Extends /\ ~ Ev.resumed /\ Len(Cur'.senders) = 2

\* C21: beRepeatedTime of the starter (senders[0]) is incremented exactly
\* once per repetition, by the run in which the sender list first reaches
\* length 2, whether the message repeats the current record or promotes a
\* queued one; no other run changes beRepeatedTime.
C21_Step ==
    Handled
    => IF BecomesReal
         THEN \A u \in Uids :
                seen'.users[u].beRepeatedTime =
                    seen.users[u].beRepeatedTime + (IF u = Cur'.senders[1] THEN 1 ELSE 0)
         ELSE \A u \in Uids : seen'.users[u].beRepeatedTime = seen.users[u].beRepeatedTime

C21_BeRepeatedTimeOnce == [][C21_Step]_vars

\* the rows ever passed to database.create
AllCreated == UNION {history[i].created : i \in 1..Len(history)}

RECURSIVE SumInterruptTime(_)
SumInterruptTime(us) ==
    IF us = {} THEN 0
    ELSE LET u == CHOOSE v \in us : TRUE
         IN  seen.users[u].interruptTime + SumInterruptTime(us \ {u})

\* C22: interruptTime is incremented once per interruption and credited to
\* the sender of the interrupting message: the sum of interruptTime over all
\* users equals the number of records ever created, and interruptTime of
\* each user equals the number of created records that name the user as
\* interrupter.
C22_InterruptTimeCountsRecords ==
    /\ SumInterruptTime(Uids) = Cardinality(AllCreated)
    /\ Cardinality(AllCreated) = seen.autoInc
    /\ \A u \in Uids :
          seen.users[u].interruptTime = Cardinality({r \in AllCreated : r.interrupter = u})
    /\ \A i \in 1..Len(history) :
          \A r \in history[i].created : r.interrupter = history[i].uid

\* C23: two fresh engines with the same configuration that handle the same
\* sessions in the same order, one at a time, hold the same persisted
\* records (times read from the clock left out) and the same user counters.
C23_ReplayDeterminism ==
    AllReturned
    => \A c \in Serial(NoPlugin, history) :
          /\ {ProjRow(r) : r \in plugin.records} = {ProjRow(r) : r \in c.records}
          /\ plugin.users = c.users

\* the session just logged equals neither the current record nor a record of
\* queuedRecs (so it resumes nothing and promotes nothing)
StartsAfresh ==
    /\ Handled
    /\ ~ isSameAsRef(seen.heap, Ev.message, Rt.currentRec)
    /\ \A i \in 1..Len(Rt.queuedRecs) :
          ~ isSameMessage(Ev.message, seen.heap[Rt.queuedRecs[i]])

\* C24: immediately after a message that neither matches the current
\* record, nor resumes a suspended one, nor promotes a queued one, the
\* current record has exactly one sender, the sender of that message, and
\* the content (and images) of that message.
C24_Step ==
    StartsAfresh
    => /\ Rt'.currentRec # Undefined
       /\ Cur'.senders = <<Ev.uid>>
       /\ Cur'.content = Ev.message.content
       /\ Cur'.images = Ev.message.images
       /\ ~ Ev.resumed /\ ~ Ev.promoted

C24_NewCurrentHasOneSender == [][C24_Step]_vars

----------------------------------------------------------------------------
(* Failures *)

\* C25: a failure of a persistence call made during a run (record create,
\* record delete, counter upsert) does not stop the delivery of the
\* message: every run ends with next() (echo is disabled here), none with
\* the rejection of a database call.
C25_FailureStillForwards ==
    \A i \in 1..Len(history) : history[i].result = "next"

\* C26: if database.create is rejected while a complete repetition is being
\* interrupted, the interrupted repetition is still the current record or
\* in suspendedRecs after the run, also when the interrupting message
\* equals a queued record.
C26_Step ==
    (Len(history') = Len(history) + 1 /\ Ev.rejected = "create")
    => \E a \in {Rt'.currentRec} \cup Range(Rt'.suspendedRecs) :
          /\ DraftOf(seen'.heap[a]) = DraftOf(Cur)
          /\ seen'.heap[a].senders = Cur.senders

C26_FailedCreateKeepsEpisode == [][C26_Step]_vars

\* C27: a failed image download never makes the handler throw, whatever the
\* configuration (echo threshold 1 included): every run ends with an echo or
\* with the message forwarded.
C27_FailedDownloadNeverThrows ==
    \A i \in 1..Len(history) :
        (Null \in Range(history[i].message.images))
            => history[i].result \in {"echo", "next"}

----------------------------------------------------------------------------
(* Channels *)

\* the objects of the heap that the runtime rt refers to
RefsOf(rt) ==
    (IF rt.currentRec = Undefined THEN {} ELSE {rt.currentRec})
        \cup Range(rt.queuedRecs) \cup Range(rt.suspendedRecs)

\* C28: a session of channel X creates the runtime of X if there is none and
\* leaves the runtime of every other channel as it was (the same objects with
\* the same fields, no runtime created for it); every record created or
\* deleted by the session is a record of channel X.
C28_Step ==
    (Len(history') = Len(history) + 1 /\ ~ Ev.bypassed)
        => /\ Ev.gid \in DOMAIN seen'.runtimes
           /\ \A g \in {Gid1, Gid2} \ {Ev.gid} :
                 /\ g \in DOMAIN seen'.runtimes <=> g \in DOMAIN seen.runtimes
                 /\ g \in DOMAIN seen.runtimes =>
                       /\ seen'.runtimes[g] = seen.runtimes[g]
                       /\ \A a \in RefsOf(seen.runtimes[g]) : seen'.heap[a] = seen.heap[a]
           /\ \A r \in (seen'.records \ seen.records) \cup (seen.records \ seen'.records) \cup Ev.created :
                 r.gid = Ev.gid
           /\ \A r \in seen.records : r.id \in Ev.removed => r.gid = Ev.gid

C28_ChannelsIndependent == [][C28_Step]_vars

\* channel Gid1 holds a suspended repetition with its stored record, and the
\* last session repeated the same message in channel Gid2
C28_Witness ==
    /\ DOMAIN seen.runtimes = {Gid1, Gid2}
    /\ \E r \in seen.records : r.gid = Gid1
    /\ Len(history) > 0
    /\ Last(history).gid = Gid2
    /\ Last(history).isRepeating
    /\ \E a \in Range(seen.runtimes[Gid1].suspendedRecs) :
          seen.heap[a].content = Last(history).message.content

----------------------------------------------------------------------------
(* Resumption and stored records *)

\* the suspended entries of the channel that equal the message
MatchingSuspended(message) ==
    {a \in Range(Rt.suspendedRecs) : isSameAsRef(seen.heap, message, a)}

\* C29: a stored record is deleted only by a session whose message equals the
\* suspended entry of that record and that makes this entry the current
\* repetition; an entry evicted from the suspended list keeps its record.
C29_Step ==
    Handled =>
        \A r \in seen.records \ seen'.records :
            \E a \in MatchingSuspended(Ev.message) :
                /\ seen.heap[a].id = r.id
                /\ HasCurrent'
                /\ \A k \in {"gid", "content", "images", "startTime",
                              "senders", "suspensions"} :
                      Cur'[k] = seen'.heap[a][k]

C29_DeletedOnlyWhenResumed == [][C29_Step]_vars

\* C30: when several suspended entries equal the message, exactly one of them
\* is resumed: one record is deleted, the entry of that record is the only
\* matching entry that leaves the suspended list and it becomes the current
\* repetition; the records of the other matching entries are still stored.
C30_Step ==
    (Handled /\ Cardinality(MatchingSuspended(Ev.message)) > 1)
        => \E a \in MatchingSuspended(Ev.message) :
              /\ Ev.removed = {seen.heap[a].id}
              /\ a \notin Range(Rt'.suspendedRecs)
              /\ \A k \in {"gid", "content", "images", "startTime",
                            "senders", "suspensions"} :
                    Cur'[k] = seen'.heap[a][k]
              /\ \A b \in MatchingSuspended(Ev.message) \ {a} :
                    /\ b \in Range(Rt'.suspendedRecs)
                    /\ \E r \in seen'.records : r.id = seen.heap[b].id

C30_CollisionResumesOne == [][C30_Step]_vars

----------------------------------------------------------------------------
(* Creation of records *)

\* C36: a session whose message equals the current repetition (its sender is
\* appended) creates no record; records are created only by sessions whose
\* message differs from the current repetition.
C36_Step ==
    (Handled /\ isSameAsRef(seen.heap, Ev.message, Rt.currentRec))
        => /\ Ev.created = {}
           /\ seen'.records \subseteq seen.records

C36_NoRecordWhileOpen == [][C36_Step]_vars

\* a record was created earlier, and the last session repeated a current
\* repetition that now has at least three senders
C36_Witness ==
    /\ Len(history) > 0
    /\ Last(history).isRepeating
    /\ AllCreated # {}
    /\ Len(Cur.senders) >= 3

\* C37: the senders of every created record contain at least two different
\* users.
C37_TwoDistinctSenders ==
    \A r \in AllCreated : Cardinality(Range(r.senders)) >= 2

----------------------------------------------------------------------------
(* Sizes of the lists of a runtime *)

\* C32: with a window W >= 1 the suspended list of the channel never holds
\* more than W + 1 entries.
C32_SuspendedBounded ==
    config.maxUnrelatedCount >= 1
        => Len(Rt.suspendedRecs) <= config.maxUnrelatedCount + 1

----------------------------------------------------------------------------
(* Staleness *)

\* the last n sessions of the log were handled and none of their messages
\* equals the record a
LastDiffer(n, a) ==
    /\ Len(history) >= n
    /\ \A i \in (Len(history) - n + 1)..Len(history) :
          /\ ~ history[i].bypassed
          /\ ~ isSameAsRef(seen.heap, history[i].message, a)

\* C33: a candidate is gone once more than W consecutive messages that differ
\* from it were handled since its last match, repetitions of the current
\* message included.
C33_CandidateStalenessCountsAll ==
    \A a \in Range(Rt.queuedRecs) :
        ~ LastDiffer(config.maxUnrelatedCount + 1, a)

\* the sessions k+1 .. Len(history) were handled and none of their messages
\* equals the stored record r
DifferSince(k, r) ==
    \A i \in (k + 1)..Len(history) :
        /\ ~ history[i].bypassed
        /\ ~ isSameMessage(history[i].message, r)

\* with a window W >= 1, the complete repetition that the message of the step
\* interrupts is in the suspended list after the step
C34_Step ==
    (InterruptsCurrent /\ config.maxUnrelatedCount >= 1)
    => \E a \in Range(Rt'.suspendedRecs) :
          /\ DraftOf(seen'.heap[a]) = DraftOf(Cur)
          /\ seen'.heap[a].senders = Cur.senders

\* with a window W >= 1, the repetition stored at an interruption is in the
\* suspended list while at most W messages that differ from it have followed
\* the interrupting message, and is gone after W + 1 of them
C34_State ==
    config.maxUnrelatedCount >= 1 =>
        \A k \in 1..Len(history) : \A r \in history[k].created :
            DifferSince(k, r) =>
                /\ Len(history) - k <= config.maxUnrelatedCount
                        => \E a \in Range(Rt.suspendedRecs) : seen.heap[a].id = r.id
                /\ Len(history) - k = config.maxUnrelatedCount + 1
                        => \A a \in Range(Rt.suspendedRecs) : seen.heap[a].id # r.id

\* C34: with a window W >= 1 an interrupted complete repetition enters the
\* suspended list with staleness 0: it stays in the list while the W
\* messages that follow the interrupting message do not match it, and is
\* removed by the (W+1)-th such message.
C34_SuspendedEntersFresh == [][C34_Step]_vars /\ [] C34_State

\* C39: after every session the candidates of the channel are at most W + 1,
\* their unrelatedCount values are pairwise different, and no two candidates
\* whose images were all downloaded hold equal messages.
C39_CandidatesDistinct ==
    /\ Len(Rt.queuedRecs) <= config.maxUnrelatedCount + 1
    /\ \A i, j \in 1..Len(Rt.queuedRecs) :
          i # j =>
            /\ seen.heap[Rt.queuedRecs[i]].unrelatedCount
                    # seen.heap[Rt.queuedRecs[j]].unrelatedCount
            /\ ( /\ Null \notin Range(seen.heap[Rt.queuedRecs[i]].images)
                 /\ Null \notin Range(seen.heap[Rt.queuedRecs[j]].images) )
                  => ~ isSameMessage(seen.heap[Rt.queuedRecs[i]], seen.heap[Rt.queuedRecs[j]])

\* the candidates are W + 1 and the last session promoted one of them
C39_Witness ==
    /\ Len(Rt.queuedRecs) = config.maxUnrelatedCount + 1
    /\ Len(history) > 0
    /\ Last(history).promoted
    /\ Len(history) >= 4

----------------------------------------------------------------------------
(* The current record and the lists *)

\* C40: after every session the current record of the channel is either one
\* of the candidates (the same object) with unrelatedCount 0, or a resumed
\* repetition (it carries a suspension) that is an object of neither the
\* candidates nor the suspended list.
C40_CurrentIsCandidateOrResumed ==
    (\E i \in 1..Len(history) : ~ history[i].bypassed) =>
        /\ HasCurrent
        /\ \/ /\ Rt.currentRec \in Range(Rt.queuedRecs)
              /\ Cur.unrelatedCount = 0
           \/ /\ Rt.currentRec \notin Range(Rt.queuedRecs)
              /\ Rt.currentRec \notin Range(Rt.suspendedRecs)
              /\ Cur.suspensions # <<>>

----------------------------------------------------------------------------
(* Interruptions handled by overlapping runs *)

RECURSIVE SumConcInterruptTime(_)
SumConcInterruptTime(us) ==
    IF us = {} THEN 0
    ELSE LET u == CHOOSE v \in us : TRUE
         IN  plugin.users[u].interruptTime + SumConcInterruptTime(us \ {u})

\* the repetitions (content and start time) that have a stored record
ConcEpisodes == {<<r.content, r.startTime>> : r \in plugin.records}

\* C35: when runs of the middleware overlap, a complete repetition that is
\* interrupted is stored as exactly one record and interruptTime is
\* incremented once for it, also when two sessions that differ from it are
\* handled with their database calls interleaved.
C35_OneRecordPerInterruption ==
    AllReturned =>
        /\ Cardinality(plugin.records) = Cardinality(ConcEpisodes)
        /\ SumConcInterruptTime(Uids) = Cardinality(ConcEpisodes)

----------------------------------------------------------------------------
(* Counters and the rebuild of the user table *)

\* C31: whenever the current record of the channel has fewer than two
\* senders, the counters of every user are those that regen-user-table
\* computes from the stored records.
C31_CountersMatchRegen ==
    (HasCurrent /\ Len(Cur.senders) < 2) => seen.users = RegenUserTable(seen.records)

----------------------------------------------------------------------------
(* The middleware of src/src/index.ts *)

\* the session whose run of the middleware of index.ts returns in this step
IndexEv == Last(draft'.log)

\* C38: in the middleware of index.ts, a message with the text of the runtime
\* row and a failed image at a position where the row holds a failed image
\* too is not a repetition: its sender is not appended, the row is reset to
\* senders = [sender].
C38_Step ==
    ( /\ Len(draft'.log) = Len(draft.log) + 1
      /\ ~ IndexEv.bypassed
      /\ IndexEv.before.content # ""
      /\ IndexEv.before.content = IndexEv.content
      /\ Len(IndexEv.before.images) = Len(IndexEv.images)
      /\ \E i \in 1..Len(IndexEv.images) :
            IndexEv.images[i] = NullB64 /\ IndexEv.before.images[i] = NullB64 )
        => IndexEv.senders = <<IndexEv.uid>>

C38_IndexImagesFailClosed == [][C38_Step]_vars

====
